---- MODULE Spec2Model ----
(***************************************************************************)
(* Model of the Reachy Mini Blockly application: the JavaScript-to-blocks  *)
(* translator (jsToBlocks, processStatement, processExpression,            *)
(* processCall), the block graph it builds, and the two code generators    *)
(* (Blockly.JavaScript rules for the robot blocks, Blockly.Python).        *)
(*                                                                         *)
(* Source text is represented by its acorn syntax tree (ESTree node        *)
(* names); generated text is represented by strings for expressions and    *)
(* by sequences of lines for statements.                                   *)
(***************************************************************************)
EXTENDS Integers, Sequences, FiniteSets, TLC

VARIABLES
    workspace,      \* the Blockly workspace: top blocks and variable map
    result,         \* what the last jsToBlocks call returned
    lastOp,         \* the last operation that ran on the workspace
    definitions_,   \* Blockly.Python.definitions_ (keys, insertion order)
    nameDB_,        \* Blockly.Python.nameDB_ (variable name -> alias pairs)
    pyOut,          \* what the last Blockly.Python.workspaceToCode returned
    codeOutput,     \* text content of the codeOutput element, as lines
    libStrict,      \* whether the Blockly build rejects an undefined variable name
    exprIn,         \* expression under translation (expression pipeline)
    exprRes,        \* its processExpression result
    exprPy,         \* its Backend B rendering
    exprPhase,      \* "src" -> "blocks" -> "text"
    rtDir,          \* round-trip direction: "text" (source first) or "node"
    rtSrc,          \* round trip: source statement
    rtBlock,        \* round trip: block
    rtText,         \* round trip: text generated by Backend A (as syntax tree)
    rtBack,         \* round trip: block obtained by translating rtText
    rtPhase,        \* "start" -> "mid" -> "done"
    ordOuter,       \* valueToCode alone: the order the parent slot requires
    ordTuple,       \* valueToCode alone: what the rule of the child returned
    ordCode,        \* valueToCode alone: the text it returned
    ordPhase,       \* "start" -> "done"
    aiInput,        \* AI assistant: the value of the aiInput element
    aiSendDisabled, \* AI assistant: sendBtn.disabled
    aiChatHistory,  \* AI assistant: the roles of the entries of aiChatHistory
    aiRuns,         \* AI assistant: where each sendAIMessage invocation stands
    stopRequested,  \* the global flag stopCode sets and runCode clears
    runs,           \* the programs started by runCode: text, position, awaited call
    timers,         \* the setInterval timer and promise of each program's wait or sleep
    motorPositionCache, \* last position commanded or read, per motor
    wasmLast,       \* the last call made on window.wasm
    stopped,        \* history: stopCode was invoked while the program was executing
    lateCmds,       \* history: motion commands the program sent after that
    waitLog,        \* history: ticks and settlements of each program's current wait
    connected,      \* Robot.connected
    pollingInterval, \* Robot.pollingInterval: a timer id, or 0 for null
    intervals,      \* ids of the position-polling timers that are active
    intervalCount,  \* number of setInterval calls of startPositionPolling so far
    pendingConnects, \* window.wasm.connect promises not yet settled
    pendingDisconnects, \* window.wasm.disconnect promises not yet settled
    statusConnected, \* what updateConnectionStatus last displayed
    afterDisconnect \* history: disconnect has run and no connect was requested since

wsVars == <<workspace, result, lastOp, definitions_, nameDB_, pyOut, codeOutput>>
exprVars == <<exprIn, exprRes, exprPy, exprPhase>>
rtVars == <<rtDir, rtSrc, rtBlock, rtText, rtBack, rtPhase>>
ordVars == <<ordOuter, ordTuple, ordCode, ordPhase>>
aiVars == <<aiInput, aiSendDisabled, aiChatHistory, aiRuns>>
runVars == <<stopRequested, runs, timers, motorPositionCache, wasmLast, stopped, lateCmds,
            waitLog>>
connVars == <<connected, pollingInterval, intervals, intervalCount, pendingConnects,
             pendingDisconnects, statusConnected, afterDisconnect>>
asyncVars == <<aiVars, runVars, connVars>>
codeVars == <<libStrict, exprVars, rtVars, ordVars, runVars, connVars>>
pageVars == <<wsVars, libStrict, exprVars, rtVars, ordVars, aiVars>>
vars == <<workspace, result, lastOp, definitions_, nameDB_, pyOut, codeOutput, libStrict,
          exprIn, exprRes, exprPy, exprPhase,
          rtDir, rtSrc, rtBlock, rtText, rtBack, rtPhase,
          ordOuter, ordTuple, ordCode, ordPhase,
          aiInput, aiSendDisabled, aiChatHistory, aiRuns,
          stopRequested, runs, timers, motorPositionCache, wasmLast, stopped, lateCmds, waitLog,
          connected, pollingInterval, intervals, intervalCount, pendingConnects,
          pendingDisconnects, statusConnected, afterDisconnect>>

Null == [type |-> "null"]

NoName == "undefined"

(***************************************************************************)
(* Syntax tree nodes (acorn / ESTree).                                     *)
(***************************************************************************)
Num(k) == [type |-> "Literal", kind |-> "number", value |-> k]
Str(s) == [type |-> "Literal", kind |-> "string", text |-> s]
Bool(b) == [type |-> "Literal", kind |-> "boolean", flag |-> b]
Id(n) == [type |-> "Identifier", name |-> n]
Un(op, a) == [type |-> "UnaryExpression", operator |-> op, argument |-> a]
Bin(op, l, r) == [type |-> "BinaryExpression", operator |-> op, left |-> l, right |-> r]
Logic(op, l, r) == [type |-> "LogicalExpression", operator |-> op, left |-> l, right |-> r]
Member(o, p, c) == [type |-> "MemberExpression", object |-> o, property |-> p, computed |-> c]
Call(c, a) == [type |-> "CallExpression", callee |-> c, arguments |-> a]
Arr(e) == [type |-> "ArrayExpression", elements |-> e]
Assign(op, l, r) == [type |-> "AssignmentExpression", operator |-> op, left |-> l, right |-> r]
Await(a) == [type |-> "AwaitExpression", argument |-> a]
Update(a) == [type |-> "UpdateExpression", argument |-> a]
FuncExpr == [type |-> "FunctionExpression"]
Dot(o, p) == Member(Id(o), Id(p), FALSE)

ExprStmt(e) == [type |-> "ExpressionStatement", expression |-> e]
Declarator(n, i) == [id |-> Id(n), init |-> i]
VarDecl(d) == [type |-> "VariableDeclaration", declarations |-> d]
Block(b) == [type |-> "BlockStatement", body |-> b]
For(i, t, u, b) == [type |-> "ForStatement", init |-> i, test |-> t, update |-> u, body |-> b]
While(t, b) == [type |-> "WhileStatement", test |-> t, body |-> b]
If(t, c, a) == [type |-> "IfStatement", test |-> t, consequent |-> c, alternate |-> a]
FuncDecl(n) == [type |-> "FunctionDeclaration", id |-> Id(n)]

IsNumLit(n) == n.type = "Literal" /\ n.kind = "number"
IsStrLit(n) == n.type = "Literal" /\ n.kind = "string"
IsBoolLit(n) == n.type = "Literal" /\ n.kind = "boolean"
\* node.value === true / node.value === 180
ValueIsTrue(n) == IsBoolLit(n) /\ n.flag
ValueIs(n, k) == IsNumLit(n) /\ n.value = k
\* x.name of a node (undefined unless it is an Identifier)
NameOf(n) == IF n.type = "Identifier" THEN n.name ELSE NoName
\* String(arg.value) of a Literal
StringOfLiteral(n) ==
    IF n.kind = "number" THEN ToString(n.value)
    ELSE IF n.kind = "string" THEN n.text
    ELSE IF n.flag THEN "true" ELSE "false"

(***************************************************************************)
(* Blocks.  A block carries its type, its fields, its inputs (value slots  *)
(* and statement slots, each holding a block or Null), the block on its    *)
(* next connection and its enabled flag.                                   *)
(***************************************************************************)
ANTENNAS == {"17", "18"}
ALL_MOTORS == {"11", "12", "13", "14", "15", "16", "17", "18"}

\* Blocks with previous/next connections
StatementTypes ==
    {"enable_torque", "disable_torque", "enable_all", "disable_all",
     "check_joints", "reboot_joint", "reboot_all", "set_joint", "set_degrees",
     "move_by", "move_smooth", "set_head_coordinates", "wait_until_stopped",
     "wait", "wait_ms", "reset_timer", "log", "log_joint", "log_type", "alert",
     "controls_if", "controls_for", "controls_whileUntil", "controls_repeat_ext",
     "controls_forEach", "variables_set", "lists_setIndex", "text_print"}

\* block.outputConnection
HasOutput(t) == t \notin StatementTypes
\* block.previousConnection / block.nextConnection
HasPrevious(t) == t \in StatementTypes
HasNext(t) == t \in StatementTypes

\* Options of the MOTOR dropdown of a block type
MotorOptions(t) ==
    IF t \in {"set_degrees", "get_degrees", "move_by"} THEN ANTENNAS
    ELSE IF t \in {"enable_torque", "disable_torque", "ping_joint", "reboot_joint",
                   "set_joint", "get_joint", "move_smooth", "is_moving",
                   "wait_until_stopped", "get_load", "get_temperature",
                   "joint_in_range", "log_joint"} THEN ALL_MOTORS
    ELSE {}

\* Inputs declared by the init function of a block type
InputsOf(t) ==
    CASE t \in {"set_joint"} -> {"JOINT"}
      [] t = "set_degrees" -> {"DEGREES"}
      [] t = "move_by" -> {"AMOUNT"}
      [] t = "move_smooth" -> {"JOINT", "DURATION"}
      [] t = "set_head_coordinates" -> {"COORDS"}
      [] t = "joints_to_coordinates" -> {"JOINTS"}
      [] t = "coordinates_to_joints" -> {"COORDINATES"}
      [] t = "get_coordinate" -> {"COORDINATES"}
      [] t = "create_coordinates" -> {"X", "Y", "Z", "ROLL", "PITCH", "YAW"}
      [] t = "wait_until_stopped" -> {"TIMEOUT"}
      [] t = "joint_in_range" -> {"MIN", "MAX"}
      [] t \in {"wait", "wait_ms"} -> {"TIME"}
      [] t \in {"log", "log_type", "alert"} -> {"MESSAGE"}
      [] t = "controls_if" -> {"IF0", "DO0"}
      [] t = "controls_for" -> {"FROM", "TO", "BY", "DO"}
      [] t = "controls_whileUntil" -> {"BOOL", "DO"}
      [] t = "controls_repeat_ext" -> {"TIMES", "DO"}
      [] t = "controls_forEach" -> {"LIST", "DO"}
      [] t = "variables_set" -> {"VALUE"}
      [] t \in {"math_single", "math_trig", "math_round"} -> {"NUM"}
      [] t = "logic_negate" -> {"BOOL"}
      [] t \in {"logic_operation", "logic_compare", "math_arithmetic"} -> {"A", "B"}
      [] t = "lists_length" -> {"VALUE"}
      [] t = "lists_getIndex" -> {"VALUE", "AT"}
      [] t = "lists_setIndex" -> {"LIST", "AT", "TO"}
      [] t = "text_print" -> {"TEXT"}
      [] OTHER -> {}

\* Field values of a freshly created block (first dropdown option)
DefaultFields(t) ==
    CASE t \in {"set_degrees", "get_degrees", "move_by"} -> [MOTOR |-> "17"]
      [] MotorOptions(t) = ALL_MOTORS -> [MOTOR |-> "11"]
      [] t = "get_coordinate" -> [COMPONENT |-> "0"]
      [] t = "log_type" -> [TYPE |-> "info"]
      [] t \in {"variables_set", "variables_get"} -> [VAR |-> NoName]
      [] t \in {"controls_for", "controls_forEach"} -> [VAR |-> "i"]
      [] t = "controls_whileUntil" -> [MODE |-> "WHILE"]
      [] t = "math_number" -> [NUM |-> 0]
      [] t = "text" -> [TEXT |-> ""]
      [] t = "logic_boolean" -> [BOOL |-> "TRUE"]
      [] t = "math_single" -> [OP |-> "ROOT"]
      [] t = "math_trig" -> [OP |-> "SIN"]
      [] t = "math_round" -> [OP |-> "ROUND"]
      [] t = "math_constant" -> ("CONSTANT" :> "PI")
      [] t = "logic_operation" -> [OP |-> "AND"]
      [] t = "logic_compare" -> [OP |-> "EQ"]
      [] t = "math_arithmetic" -> [OP |-> "ADD"]
      [] t \in {"lists_getIndex"} -> [MODE |-> "GET", WHERE |-> "FROM_START"]
      [] t \in {"lists_setIndex"} -> [MODE |-> "SET", WHERE |-> "FROM_START"]
      [] OTHER -> [none |-> ""]

\* workspace.newBlock(type): a block with the given fields and empty inputs
MakeBlock(t, f, ins) ==
    [type |-> t, fields |-> f, inputs |-> [n \in ins |-> Null],
     next |-> Null, enabled |-> TRUE]

newBlock(t) == MakeBlock(t, DefaultFields(t), InputsOf(t))

\* block.setFieldValue(value, name)
setFieldValue(block, name, value) == [block EXCEPT !.fields[name] = value]

\* ADD0 .. ADD(n-1): the inputs created by updateShape_ for itemCount_ = n
AddName(i) == "ADD" \o ToString(i)
AddNames(n) == {AddName(i) : i \in 0..(n - 1)}

(***************************************************************************)
(* The translator's functions call each other by name through invoke, so   *)
(* that the body of each function occurs once in the definition of a step. *)
(* exprBlock, stmtBlock, bodyBlocks, filled and blockOf are the calls of   *)
(* processExpression, processStatement, processBody, Fill and newBlock.    *)
(***************************************************************************)
RECURSIVE invoke(_, _)
exprBlock(node, asStatement) == invoke("processExpression", <<node, asStatement>>)
stmtBlock(node) == invoke("processStatement", <<node>>)
bodyBlocks(stmts, n) == invoke("processBody", <<stmts, n>>)
filled(block, kids, vs, late) == invoke("Fill", <<block, kids, vs, late>>)
blockOf(t) == invoke("newBlock", <<t>>)

(***************************************************************************)
(* Translator results.  A translation step returns the block it built (or  *)
(* Null), the blocks it created that stayed unattached at top level, the   *)
(* variables it created, and whether it raised an exception.               *)
(***************************************************************************)
Res(b, orph, vs, threw) == [b |-> b, orph |-> orph, vars |-> vs, threw |-> threw]
NoRes == Res(Null, <<>>, {}, FALSE)
Kid(slot, res) == [slot |-> slot, res |-> res]

RECURSIVE Flat(_)
Flat(ss) == IF ss = <<>> THEN <<>> ELSE Head(ss) \o Flat(Tail(ss))

RECURSIVE UnionAll(_)
UnionAll(ss) == IF ss = <<>> THEN {} ELSE Head(ss) \cup UnionAll(Tail(ss))

\* the guard of connectValue: the input exists and the block has an output
CanConnectValue(block, inputName, valueBlock) ==
    /\ inputName \in DOMAIN block.inputs
    /\ HasOutput(valueBlock.type)

connectValue(block, inputName, valueBlock) ==
    IF CanConnectValue(block, inputName, valueBlock)
    THEN [block EXCEPT !.inputs[inputName] = valueBlock]
    ELSE block

\* Index of the first kid whose translation threw (0 when none)
FirstThrow(kids) ==
    IF \E i \in 1..Len(kids) : kids[i].res.threw
    THEN CHOOSE i \in 1..Len(kids) :
            /\ kids[i].res.threw
            /\ \A j \in 1..(i - 1) : ~kids[j].res.threw
    ELSE 0

RECURSIVE ConnectKids(_, _, _)
ConnectKids(block, kids, n) ==
    IF n = 0 THEN block
    ELSE LET prev == ConnectKids(block, kids, n - 1)
             k == kids[n]
         IN IF k.res.b = Null THEN prev
            ELSE connectValue(prev, k.slot, k.res.b)

\* Blocks a kid leaves at top level: its own block when it was not
\* connected, then the blocks its translation left unattached
Loose(block, k) ==
    (IF k.res.b # Null /\ ~CanConnectValue(block, k.slot, k.res.b)
     THEN <<k.res.b>> ELSE <<>>) \o k.res.orph

Unconnected(k) == (IF k.res.b # Null THEN <<k.res.b>> ELSE <<>>) \o k.res.orph

\* A block whose value inputs are filled from the translations of its
\* operands, in order.  late = the code connects the operands only after it
\* has translated all of them.
Fill(block, kids, vs, late) ==
    LET ft == FirstThrow(kids)
        upto == IF ft = 0 THEN Len(kids) ELSE ft - 1
        allVars == vs \cup UnionAll([i \in 1..(IF ft = 0 THEN upto ELSE ft) |-> kids[i].res.vars])
    IN IF ft = 0
       THEN Res(ConnectKids(block, kids, upto),
                Flat([i \in 1..upto |-> Loose(block, kids[i])]), allVars, FALSE)
       ELSE IF late
       THEN Res(Null,
                <<block>> \o Flat([i \in 1..upto |-> Unconnected(kids[i])])
                          \o kids[ft].res.orph, allVars, TRUE)
       ELSE Res(Null,
                <<ConnectKids(block, kids, upto)>>
                    \o Flat([i \in 1..upto |-> Loose(block, kids[i])])
                    \o kids[ft].res.orph, allVars, TRUE)

\* workspace.createVariable(name): the library's response to an undefined
\* name is either to accept it or to raise (libStrict)
createVariableThrows(name) == name = NoName /\ libStrict

mathNumber(k) == MakeBlock("math_number", [NUM |-> k], {})

\* setMotorField: only a Literal argument sets the MOTOR dropdown, and the
\* dropdown keeps its value when the new one is not among its options
setMotorField(block, arg) ==
    IF arg.type = "Literal" /\ StringOfLiteral(arg) \in MotorOptions(block.type)
    THEN setFieldValue(block, "MOTOR", StringOfLiteral(arg))
    ELSE block

getCalleeName(callee) ==
    IF callee.type = "Identifier" THEN callee.name
    ELSE IF callee.type = "MemberExpression"
         THEN (IF callee.object.type = "Identifier" THEN callee.object.name ELSE "")
              \o "." \o
              (IF callee.property.type = "Identifier" THEN callee.property.name ELSE "")
         ELSE ""

\* Flatten chained + expressions into the sequence of their parts
RECURSIVE flattenStringConcat(_)
flattenStringConcat(node) ==
    IF node.type = "BinaryExpression" /\ node.operator = "+"
    THEN flattenStringConcat(node.left) \o flattenStringConcat(node.right)
    ELSE <<node>>

hasString_mutNever(parts) == FALSE

hasString(parts) == \E i \in 1..Len(parts) : IsStrLit(parts[i])

\* Append chain b after the last block of chain a
RECURSIVE Link(_, _)
Link(a, b) ==
    IF a.next = Null THEN [a EXCEPT !.next = b]
    ELSE [a EXCEPT !.next = Link(a.next, b)]

RECURSIVE getLastBlock(_)
getLastBlock(block) ==
    IF HasNext(block.type) /\ block.next # Null THEN getLastBlock(block.next)
    ELSE block

(***************************************************************************)
(* processExpression, processCall, processStatement                        *)
(***************************************************************************)
RECURSIVE processCall(_, _)

\* A block without inputs to fill
Leaf(block) == Res(block, <<>>, {}, FALSE)

\* A block that needs workspace.createVariable(name) right after it is made
WithVariable(block, name, kids) ==
    IF createVariableThrows(name)
    THEN Res(Null, <<block>>, {}, TRUE)
    ELSE filled(setFieldValue(block, "VAR", name), kids, {name}, FALSE)

\* The index slot of lists_getIndex / lists_setIndex: JavaScript is 0-based,
\* the blocks are 1-based
IndexBlock_mutNoShift(property) ==
    exprBlock(property, FALSE)

IndexBlock(property) ==
    IF IsNumLit(property)
    THEN Leaf(mathNumber(property.value + 1))
    ELSE LET indexBlock == exprBlock(property, FALSE)
         IN IF indexBlock.threw \/ indexBlock.b = Null
            THEN indexBlock
            ELSE filled(setFieldValue(blockOf("math_arithmetic"), "OP", "ADD"),
                      <<Kid("A", indexBlock), Kid("B", Leaf(mathNumber(1)))>>,
                      {}, FALSE)

\* The operand of a trig call: (expr * Math.PI) / 180 yields expr
angleExpr(arg) ==
    IF /\ arg.type = "BinaryExpression" /\ arg.operator = "/"
       /\ arg.left.type = "BinaryExpression" /\ arg.left.operator = "*"
       /\ ValueIs(arg.right, 180)
       /\ arg.left.right.type = "MemberExpression"
       /\ NameOf(arg.left.right.object) = "Math"
       /\ NameOf(arg.left.right.property) = "PI"
    THEN arg.left.left
    ELSE arg

trigOpMap ==
    [sin |-> "SIN", cos |-> "COS", tan |-> "TAN",
     asin |-> "ASIN", acos |-> "ACOS", atan |-> "ATAN"]
inverseTrigMap == [asin |-> "ASIN", acos |-> "ACOS", atan |-> "ATAN"]
roundOpMap == [floor |-> "ROUNDDOWN", ceil |-> "ROUNDUP", round |-> "ROUND"]
mathOpMap == [abs |-> "ABS", sqrt |-> "ROOT"]

compoundOpMap ==
    [a \in {"+=", "-=", "*=", "/=", "%="} |->
        CASE a = "+=" -> "ADD" [] a = "-=" -> "MINUS" [] a = "*=" -> "MULTIPLY"
          [] a = "/=" -> "DIVIDE" [] OTHER -> "MODULO"]

CompareOps == {"==", "===", "!=", "!==", "<", "<=", ">", ">="}
ArithmeticOps == {"+", "-", "*", "/", "%"}

opMap ==
    [o \in CompareOps \cup ArithmeticOps |->
        CASE o \in {"==", "==="} -> "EQ" [] o \in {"!=", "!=="} -> "NEQ"
          [] o = "<" -> "LT" [] o = "<=" -> "LTE" [] o = ">" -> "GT" [] o = ">=" -> "GTE"
          [] o = "+" -> "ADD" [] o = "-" -> "MINUS" [] o = "*" -> "MULTIPLY"
          [] o = "/" -> "DIVIDE" [] OTHER -> "MODULO"]

\* (Math.asin(x) * 180) / Math.PI
IsInverseTrigPattern(node) ==
    /\ node.operator = "/"
    /\ node.right.type = "MemberExpression"
    /\ NameOf(node.right.object) = "Math"
    /\ NameOf(node.right.property) = "PI"
    /\ node.left.type = "BinaryExpression" /\ node.left.operator = "*"
    /\ ValueIs(node.left.right, 180)
    /\ node.left.left.type = "CallExpression"
    /\ node.left.left.callee.type = "MemberExpression"
    /\ NameOf(node.left.left.callee.object) = "Math"
    /\ NameOf(node.left.left.callee.property) \in DOMAIN inverseTrigMap
    /\ Len(node.left.left.arguments) >= 1

IsMathCall(node) ==
    /\ node.callee.type = "MemberExpression"
    /\ NameOf(node.callee.object) = "Math"

processAssignment(node) ==
    IF node.left.type = "MemberExpression" /\ node.left.computed
    THEN filled(blockOf("lists_setIndex"),
              <<Kid("LIST", exprBlock(node.left.object, FALSE)),
                Kid("AT", IndexBlock(node.left.property)),
                Kid("TO", exprBlock(node.right, FALSE))>>, {}, FALSE)
    ELSE LET varName == NameOf(node.left)
         IN IF node.operator # "=" /\ node.operator \in DOMAIN compoundOpMap
            THEN IF createVariableThrows(varName)
                 THEN Res(Null, <<blockOf("variables_set")>>, {}, TRUE)
                 ELSE LET mathBlock ==
                            filled(setFieldValue(blockOf("math_arithmetic"), "OP",
                                               compoundOpMap[node.operator]),
                                 <<Kid("A", Leaf(setFieldValue(blockOf("variables_get"),
                                                               "VAR", varName))),
                                   Kid("B", exprBlock(node.right, FALSE))>>,
                                 {}, FALSE)
                      IN filled(setFieldValue(blockOf("variables_set"), "VAR", varName),
                              <<Kid("VALUE", mathBlock)>>, {varName}, FALSE)
            ELSE WithVariable(blockOf("variables_set"), varName,
                              <<Kid("VALUE", exprBlock(node.right, FALSE))>>)

processMathCall(node, asStatement) ==
    LET mathFunc == NameOf(node.callee.property)
        hasArg == Len(node.arguments) >= 1
    IN IF mathFunc \in DOMAIN trigOpMap /\ hasArg
       THEN filled(setFieldValue(blockOf("math_trig"), "OP", trigOpMap[mathFunc]),
                 <<Kid("NUM", exprBlock(angleExpr(node.arguments[1]), FALSE))>>,
                 {}, FALSE)
       ELSE IF mathFunc \in DOMAIN roundOpMap /\ hasArg
       THEN filled(setFieldValue(blockOf("math_round"), "OP", roundOpMap[mathFunc]),
                 <<Kid("NUM", exprBlock(node.arguments[1], FALSE))>>, {}, FALSE)
       ELSE IF mathFunc \in DOMAIN mathOpMap /\ hasArg
       THEN filled(setFieldValue(blockOf("math_single"), "OP", mathOpMap[mathFunc]),
                 <<Kid("NUM", exprBlock(node.arguments[1], FALSE))>>, {}, FALSE)
       ELSE processCall(node, asStatement)

processBinary(node) ==
    IF IsInverseTrigPattern(node)
    THEN filled(setFieldValue(blockOf("math_trig"), "OP",
                            inverseTrigMap[NameOf(node.left.left.callee.property)]),
              <<Kid("NUM", exprBlock(node.left.left.arguments[1], FALSE))>>,
              {}, FALSE)
    ELSE IF node.operator \in CompareOps
    THEN filled(setFieldValue(blockOf("logic_compare"), "OP", opMap[node.operator]),
              <<Kid("A", exprBlock(node.left, FALSE)),
                Kid("B", exprBlock(node.right, FALSE))>>, {}, TRUE)
    ELSE IF node.operator = "+" /\ hasString(flattenStringConcat(node))
    THEN LET parts == flattenStringConcat(node)
         IN filled(MakeBlock("text_join", [itemCount_ |-> Len(parts)], AddNames(Len(parts))),
                 [i \in 1..Len(parts) |->
                     Kid(AddName(i - 1), exprBlock(parts[i], FALSE))],
                 {}, FALSE)
    ELSE IF node.operator \in ArithmeticOps
    THEN filled(setFieldValue(blockOf("math_arithmetic"), "OP", opMap[node.operator]),
              <<Kid("A", exprBlock(node.left, FALSE)),
                Kid("B", exprBlock(node.right, FALSE))>>, {}, TRUE)
    ELSE NoRes

processMember(node) ==
    IF ~node.computed /\ NameOf(node.object) = "Math" /\ NameOf(node.property) = "PI"
    THEN Leaf(setFieldValue(blockOf("math_constant"), "CONSTANT", "PI"))
    ELSE IF ~node.computed /\ NameOf(node.property) = "length"
    THEN filled(blockOf("lists_length"),
              <<Kid("VALUE", exprBlock(node.object, FALSE))>>, {}, FALSE)
    ELSE IF node.computed
    THEN filled(blockOf("lists_getIndex"),
              <<Kid("VALUE", exprBlock(node.object, FALSE)),
                Kid("AT", IndexBlock(node.property))>>, {}, FALSE)
    ELSE NoRes

coordinateFieldNames == <<"X", "Y", "Z", "ROLL", "PITCH", "YAW">>

processArray_mutAlwaysList(node) ==
    LET itemCount == Len(node.elements)
    IN filled(MakeBlock("lists_create_with", [itemCount_ |-> itemCount],
                        AddNames(itemCount)),
              [i \in 1..itemCount |->
                  Kid(AddName(i - 1), exprBlock(node.elements[i], FALSE))],
              {}, FALSE)

processArray(node) ==
    IF Len(node.elements) = 6
    THEN filled(blockOf("create_coordinates"),
              [i \in 1..6 |->
                  Kid(coordinateFieldNames[i], exprBlock(node.elements[i], FALSE))],
              {}, FALSE)
    ELSE LET itemCount == Len(node.elements)
         IN filled(MakeBlock("lists_create_with", [itemCount_ |-> itemCount],
                           AddNames(itemCount)),
                 [i \in 1..itemCount |->
                     Kid(AddName(i - 1), exprBlock(node.elements[i], FALSE))],
                 {}, FALSE)

processExpression(node, asStatement) ==
    IF node = Null THEN NoRes
    ELSE CASE node.type = "AwaitExpression" ->
                exprBlock(node.argument, asStatement)
           [] node.type = "AssignmentExpression" -> processAssignment(node)
           [] node.type = "CallExpression" ->
                IF IsMathCall(node) THEN processMathCall(node, asStatement)
                ELSE IF /\ node.callee.type = "MemberExpression"
                        /\ NameOf(node.callee.object) = "Date"
                        /\ NameOf(node.callee.property) = "now"
                        /\ Len(node.arguments) = 0
                THEN Leaf(blockOf("get_time"))
                ELSE processCall(node, asStatement)
           [] IsNumLit(node) ->
                Leaf(mathNumber(node.value))
           [] IsStrLit(node) ->
                Leaf(setFieldValue(blockOf("text"), "TEXT", node.text))
           [] IsBoolLit(node) ->
                Leaf(setFieldValue(blockOf("logic_boolean"), "BOOL",
                                   IF node.flag THEN "TRUE" ELSE "FALSE"))
           [] node.type = "UnaryExpression" ->
                IF node.operator = "-"
                THEN filled(setFieldValue(blockOf("math_single"), "OP", "NEG"),
                          <<Kid("NUM", exprBlock(node.argument, FALSE))>>, {}, FALSE)
                ELSE IF node.operator = "!"
                THEN filled(blockOf("logic_negate"),
                          <<Kid("BOOL", exprBlock(node.argument, FALSE))>>, {}, FALSE)
                ELSE NoRes
           [] node.type = "LogicalExpression" ->
                filled(setFieldValue(blockOf("logic_operation"), "OP",
                                   IF node.operator = "&&" THEN "AND" ELSE "OR"),
                     <<Kid("A", exprBlock(node.left, FALSE)),
                       Kid("B", exprBlock(node.right, FALSE))>>, {}, TRUE)
           [] node.type = "BinaryExpression" -> processBinary(node)
           [] node.type = "Identifier" ->
                Res(setFieldValue(blockOf("variables_get"), "VAR", node.name),
                    <<>>, {node.name}, FALSE)
           [] node.type = "MemberExpression" -> processMember(node)
           [] node.type = "ArrayExpression" -> processArray(node)
           [] OTHER -> NoRes

\* A call form that sets the MOTOR field from the first argument and fills
\* value inputs from the arguments at the given positions
MotorCall(t, args, slots) ==
    filled(setMotorField(blockOf(t), args[1]),
         [i \in 1..Len(slots) |->
             Kid(slots[i].slot, exprBlock(args[slots[i].arg], FALSE))],
         {}, FALSE)

\* A call form whose single optional/required argument fills one value input
OneArgCall(t, args, slot) ==
    IF Len(args) >= 1
    THEN filled(blockOf(t), <<Kid(slot, exprBlock(args[1], FALSE))>>, {}, FALSE)
    ELSE Leaf(blockOf(t))

processCall(node, asStatement) ==
    LET callee == getCalleeName(node.callee)
        args == node.arguments
        n == Len(node.arguments)
    IN CASE callee = "Robot.setPositionLimited" /\ n >= 2 ->
                MotorCall("set_joint", args, <<[slot |-> "JOINT", arg |-> 2]>>)
         [] callee = "Robot.getPosition" /\ n >= 1 -> MotorCall("get_joint", args, <<>>)
         [] callee = "Robot.setTorque" /\ n >= 2 ->
                MotorCall(IF ValueIsTrue(args[2]) THEN "enable_torque" ELSE "disable_torque",
                          args, <<>>)
         [] callee = "Robot.setTorqueMultiple" /\ n >= 2 ->
                Leaf(blockOf(IF ValueIsTrue(args[2]) THEN "enable_all" ELSE "disable_all"))
         [] callee = "logConsole" -> OneArgCall("log", args, "MESSAGE")
         [] callee = "alert" -> OneArgCall("alert", args, "MESSAGE")
         [] callee = "sleep" -> OneArgCall("wait_ms", args, "TIME")
         [] callee = "wait" -> OneArgCall("wait", args, "TIME")
         [] callee = "Robot.moveSmooth" /\ n >= 3 ->
                MotorCall("move_smooth", args,
                          <<[slot |-> "JOINT", arg |-> 2], [slot |-> "DURATION", arg |-> 3]>>)
         [] callee = "Robot.checkAllMotors" -> Leaf(blockOf("check_joints"))
         [] callee = "Robot.setDegrees" /\ n >= 2 ->
                MotorCall("set_degrees", args, <<[slot |-> "DEGREES", arg |-> 2]>>)
         [] callee = "Robot.getDegrees" /\ n >= 1 -> MotorCall("get_degrees", args, <<>>)
         [] callee = "Robot.setHeadCoordinates" /\ n >= 1 ->
                OneArgCall("set_head_coordinates", args, "COORDS")
         [] callee = "Robot.getHeadCoordinates" -> Leaf(blockOf("get_head_coordinates"))
         [] callee = "Robot.setAllPositions" /\ n >= 1 ->
                OneArgCall("set_head_coordinates", args, "COORDS")
         [] callee = "Robot.jointsToCoordinates" /\ n >= 1 ->
                OneArgCall("joints_to_coordinates", args, "JOINTS")
         [] callee = "Robot.coordinatesToJoints" /\ n >= 1 ->
                OneArgCall("coordinates_to_joints", args, "COORDINATES")
         [] callee = "Robot.isMoving" /\ n >= 1 -> MotorCall("is_moving", args, <<>>)
         [] callee = "Robot.getLoad" /\ n >= 1 -> MotorCall("get_load", args, <<>>)
         [] callee = "Robot.getTemperature" /\ n >= 1 ->
                MotorCall("get_temperature", args, <<>>)
         [] callee = "logJoint" /\ n >= 1 -> MotorCall("log_joint", args, <<>>)
         [] callee = "Robot.ping" /\ n >= 1 -> MotorCall("ping_joint", args, <<>>)
         [] callee = "Robot.reboot" /\ n >= 1 -> MotorCall("reboot_joint", args, <<>>)
         [] callee = "Robot.rebootAll" -> Leaf(blockOf("reboot_all"))
         [] OTHER -> NoRes

\* lastBlock.nextConnection.connect(block.previousConnection) links the two
\* chains only when both connections exist
CanChain(lastBlock, block) == HasNext(lastBlock.type) /\ HasPrevious(block.type)

BodyRes(chains, orph, vs, threw) ==
    [chains |-> chains, orph |-> orph, vars |-> vs, threw |-> threw]

\* The loop over the statements of a body: each translated statement is
\* linked after the last block of the previous one when that is possible,
\* and otherwise starts a chain of its own.  chains[1] is firstBodyBlock.
processBody(stmts, n) ==
    IF n = 0 THEN BodyRes(<<>>, <<>>, {}, FALSE)
    ELSE LET prev == bodyBlocks(stmts, n - 1)
             r == stmtBlock(stmts[n])
             k == Len(prev.chains)
         IN IF prev.threw THEN prev
            ELSE IF r.threw
            THEN BodyRes(prev.chains, prev.orph \o r.orph, prev.vars \cup r.vars, TRUE)
            ELSE IF r.b = Null
            THEN BodyRes(prev.chains, prev.orph \o r.orph, prev.vars \cup r.vars, FALSE)
            ELSE IF k > 0 /\ CanChain(getLastBlock(prev.chains[k]), r.b)
            THEN BodyRes([prev.chains EXCEPT ![k] = Link(prev.chains[k], r.b)],
                         prev.orph \o r.orph, prev.vars \cup r.vars, FALSE)
            ELSE BodyRes(Append(prev.chains, r.b),
                         prev.orph \o r.orph, prev.vars \cup r.vars, FALSE)

\* node.body && node.body.body
HasBody(n) == n # Null /\ n.type = "BlockStatement"

BodyOf(n) == IF HasBody(n) THEN bodyBlocks(n.body, Len(n.body))
             ELSE BodyRes(<<>>, <<>>, {}, FALSE)

\* block.getInput(name).connection.connect(firstBodyBlock.previousConnection)
AttachBodies(head, bodies) ==
    LET ft == IF \E i \in 1..Len(bodies) : bodies[i].body.threw
              THEN CHOOSE i \in 1..Len(bodies) :
                      /\ bodies[i].body.threw
                      /\ \A j \in 1..(i - 1) : ~bodies[j].body.threw
              ELSE 0
        upto == IF ft = 0 THEN Len(bodies) ELSE ft
        attached(i) == /\ bodies[i].body.chains # <<>>
                       /\ HasPrevious(bodies[i].body.chains[1].type)
        blk == [head.b EXCEPT !.inputs =
                   [s \in DOMAIN head.b.inputs |->
                       IF \E i \in 1..(IF ft = 0 THEN upto ELSE ft - 1) :
                              bodies[i].slot = s /\ attached(i)
                       THEN LET i == CHOOSE i \in 1..upto : bodies[i].slot = s /\ attached(i)
                            IN bodies[i].body.chains[1]
                       ELSE head.b.inputs[s]]]
        rest(i) == (IF attached(i) /\ (ft = 0 \/ i < ft)
                    THEN Tail(bodies[i].body.chains) ELSE bodies[i].body.chains)
                   \o bodies[i].body.orph
        vs == head.vars \cup UnionAll([i \in 1..upto |-> bodies[i].body.vars])
    IN IF ft = 0
       THEN Res(blk, head.orph \o Flat([i \in 1..upto |-> rest(i)]), vs, FALSE)
       ELSE Res(Null, <<blk>> \o head.orph \o Flat([i \in 1..upto |-> rest(i)]), vs, TRUE)

\* A control block: head is the block with its value inputs filled, bodies
\* are the statement inputs with the translated bodies
Control(head, bodies) ==
    IF head.threw THEN head ELSE AttachBodies(head, bodies)

\* One variables_set block per declarator, chained in declaration order
RECURSIVE processDeclarations(_, _)
processDeclarations(declarations, n) ==
    IF n = 0 THEN NoRes
    ELSE LET prev == processDeclarations(declarations, n - 1)
             decl == declarations[n]
             r == WithVariable(blockOf("variables_set"), NameOf(decl.id),
                               <<Kid("VALUE", exprBlock(decl.init, FALSE))>>)
         IN IF prev.threw THEN prev
            ELSE IF r.threw
            THEN Res(Null, (IF prev.b = Null THEN <<>> ELSE <<prev.b>>) \o prev.orph \o r.orph,
                     prev.vars \cup r.vars, TRUE)
            ELSE Res(IF prev.b = Null THEN r.b ELSE Link(prev.b, r.b),
                     prev.orph \o r.orph, prev.vars \cup r.vars, FALSE)

\* node.test && node.test.right
TestRight(test) ==
    IF test # Null /\ test.type \in {"BinaryExpression", "LogicalExpression",
                                     "AssignmentExpression"}
    THEN test.right ELSE Null

byBlock_mutFromUpdate(node) ==
    Kid("BY", IF node.update # Null /\ node.update.type = "AssignmentExpression"
              THEN exprBlock(node.update.right, FALSE)
              ELSE Leaf(mathNumber(1)))

byBlock(node) == Kid("BY", Leaf(mathNumber(1)))

processFor(node) ==
    LET hasDecl == node.init # Null /\ node.init.type = "VariableDeclaration"
        block == blockOf("controls_for")
        kids == <<Kid("FROM", IF hasDecl
                              THEN exprBlock(node.init.declarations[1].init, FALSE)
                              ELSE NoRes),
                  Kid("TO", exprBlock(TestRight(node.test), FALSE)),
                  byBlock(node)>>
        head == IF hasDecl
                THEN WithVariable(block, NameOf(node.init.declarations[1].id), kids)
                ELSE filled(block, kids, {}, FALSE)
    IN Control(head, <<[slot |-> "DO", body |-> BodyOf(node.body)]>>)

processWhile(node) ==
    Control(filled(blockOf("controls_whileUntil"),
                 <<Kid("BOOL", exprBlock(node.test, FALSE))>>, {}, FALSE),
            <<[slot |-> "DO", body |-> BodyOf(node.body)]>>)

\* block.elseCount_ = 1; block.updateShape_() adds the ELSE input
ifBlock(hasElse) ==
    IF hasElse
    THEN MakeBlock("controls_if", [elseCount_ |-> 1], {"IF0", "DO0", "ELSE"})
    ELSE blockOf("controls_if")

processIf(node) ==
    Control(filled(ifBlock(node.alternate # Null),
                 <<Kid("IF0", exprBlock(node.test, FALSE))>>, {}, FALSE),
            <<[slot |-> "DO0", body |-> BodyOf(node.consequent)]>>
            \o (IF HasBody(node.alternate)
                THEN <<[slot |-> "ELSE", body |-> BodyOf(node.alternate)]>>
                ELSE <<>>))

processStatement(node) ==
    IF node = Null THEN NoRes
    ELSE CASE node.type = "ExpressionStatement" -> exprBlock(node.expression, TRUE)
           [] node.type = "VariableDeclaration" ->
                processDeclarations(node.declarations, Len(node.declarations))
           [] node.type = "ForStatement" -> processFor(node)
           [] node.type = "WhileStatement" -> processWhile(node)
           [] node.type = "IfStatement" -> processIf(node)
           [] OTHER -> NoRes

invoke(f, a) ==
    CASE f = "processExpression" -> processExpression(a[1], a[2])
      [] f = "processStatement" -> processStatement(a[1])
      [] f = "processBody" -> processBody(a[1], a[2])
      [] f = "Fill" -> Fill(a[1], a[2], a[3], a[4])
      [] f = "newBlock" -> newBlock(a[1])

(***************************************************************************)
(* jsToBlocks                                                              *)
(***************************************************************************)
MapSeq(F(_), s) == [i \in 1..Len(s) |-> F(s[i])]

\* jsCode.replace(/\bawait\s+/g, ''): the parser sees the program without
\* any await keyword
RECURSIVE stripAwait(_)
stripAwait(n) ==
    IF n = Null THEN Null
    ELSE CASE n.type = "AwaitExpression" -> stripAwait(n.argument)
           [] n.type = "ExpressionStatement" ->
                [n EXCEPT !.expression = stripAwait(@)]
           [] n.type \in {"BinaryExpression", "LogicalExpression", "AssignmentExpression"} ->
                [n EXCEPT !.left = stripAwait(@), !.right = stripAwait(@)]
           [] n.type = "UnaryExpression" -> [n EXCEPT !.argument = stripAwait(@)]
           [] n.type = "CallExpression" ->
                [n EXCEPT !.callee = stripAwait(@),
                          !.arguments = MapSeq(stripAwait, @)]
           [] n.type = "MemberExpression" ->
                [n EXCEPT !.object = stripAwait(@), !.property = stripAwait(@)]
           [] n.type = "ArrayExpression" -> [n EXCEPT !.elements = MapSeq(stripAwait, @)]
           [] n.type = "VariableDeclaration" ->
                [n EXCEPT !.declarations =
                    [i \in 1..Len(@) |-> [@[i] EXCEPT !.init = stripAwait(@)]]]
           [] n.type = "BlockStatement" -> [n EXCEPT !.body = MapSeq(stripAwait, @)]
           [] n.type = "ForStatement" ->
                [n EXCEPT !.init = stripAwait(@), !.test = stripAwait(@),
                          !.body = stripAwait(@)]
           [] n.type = "WhileStatement" ->
                [n EXCEPT !.test = stripAwait(@), !.body = stripAwait(@)]
           [] n.type = "IfStatement" ->
                [n EXCEPT !.test = stripAwait(@), !.consequent = stripAwait(@),
                          !.alternate = stripAwait(@)]
           [] OTHER -> n

\* A root of the workspace: a block (with everything attached to it) and
\* its position
Root(b, x, y) == [b |-> b, x |-> x, y |-> y]

\* Number of rows a block and the chain below it occupy: one per block of
\* the chain plus the rows of the statement inputs
RECURSIVE Rows(_)
Rows(b) ==
    IF b = Null THEN 0
    ELSE LET in(s) == IF s \in DOMAIN b.inputs
                      THEN (IF Rows(b.inputs[s]) = 0 THEN 1 ELSE Rows(b.inputs[s]))
                      ELSE 0
         IN 1 + in("DO") + in("DO0") + in("ELSE") + Rows(b.next)

RowHeight == 24

\* block.getHeightWidth().height
getHeightWidth(b) == RowHeight * Rows(b)

RECURSIVE MaxOf(_)
MaxOf(S) == IF S = {} THEN 0
            ELSE LET x == CHOOSE x \in S : TRUE
                     m == MaxOf(S \ {x})
                 IN IF x > m THEN x ELSE m

\* y position below every existing root, with the 30px gap
firstYPos(top) ==
    MaxOf({50} \cup {top[i].y + getHeightWidth(top[i].b) + 30 : i \in 1..Len(top)})

\* The loop over the top-level statements.  roots are the blocks the loop
\* placed, in creation order; the block of a statement is linked below the
\* last one when both have the connections, and placed at (50, yPos)
\* otherwise.  Blocks left unattached by a statement stay where newBlock
\* put them, at the origin.
placeBlock_mutAbortOnNull(prev, r) ==
    LET k == Len(prev.roots)
        orph == prev.orph \o r.orph
        vs == prev.vars \cup r.vars
    IN IF prev.threw THEN prev
       ELSE IF r.threw \/ r.b = Null
       THEN [prev EXCEPT !.orph = orph, !.vars = vs, !.threw = TRUE]
       ELSE IF k > 0 /\ CanChain(getLastBlock(prev.roots[k].b), r.b)
       THEN [prev EXCEPT !.roots[k].b = Link(@, r.b), !.orph = orph, !.vars = vs]
       ELSE [prev EXCEPT !.roots = Append(@, Root(r.b, 50, prev.yPos)),
                         !.orph = orph, !.vars = vs, !.yPos = @ + 80]

placeBlock(prev, r) ==
    LET k == Len(prev.roots)
        orph == prev.orph \o r.orph
        vs == prev.vars \cup r.vars
    IN IF prev.threw THEN prev
       ELSE IF r.threw
       THEN [prev EXCEPT !.orph = orph, !.vars = vs, !.threw = TRUE]
       ELSE IF r.b = Null
       THEN [prev EXCEPT !.orph = orph, !.vars = vs]
       ELSE IF k > 0 /\ CanChain(getLastBlock(prev.roots[k].b), r.b)
       THEN [prev EXCEPT !.roots[k].b = Link(@, r.b), !.orph = orph, !.vars = vs]
       ELSE [prev EXCEPT !.roots = Append(@, Root(r.b, 50, prev.yPos)),
                         !.orph = orph, !.vars = vs, !.yPos = @ + 80]

RECURSIVE processProgram(_, _, _)
processProgram(body, n, y0) ==
    IF n = 0
    THEN [roots |-> <<>>, orph |-> <<>>, vars |-> {}, threw |-> FALSE, yPos |-> y0]
    ELSE placeBlock(processProgram(body, n - 1, y0), stmtBlock(body[n]))

\* A program text: either text the parser rejects (with the parser's
\* message) or text that parses to a list of statements
Source(body) == [parses |-> TRUE, body |-> body, message |-> ""]
BadSource(msg) == [parses |-> FALSE, body |-> <<>>, message |-> msg]

\* The message of the exception createVariable raises for an undefined name
LibraryMessage == "Cannot read properties of undefined (reading 'toLowerCase')"

\* jsToBlocks(jsCode): the workspace after the call and the returned object
returned(ws, p) ==
    LET ws2 == [top |-> ws.top \o p.roots \o MapSeq(LAMBDA b : Root(b, 0, 0), p.orph),
                variables |-> ws.variables \cup p.vars]
    IN IF p.threw
       THEN [workspace |-> ws2,
             result |-> [success |-> FALSE, error |-> LibraryMessage]]
       ELSE [workspace |-> ws2, result |-> [success |-> TRUE, error |-> ""]]

parsed(body, y0) == processProgram(body, Len(body), y0)

jsToBlocks(ws, jsCode) ==
    IF ~jsCode.parses
    THEN [workspace |-> ws, result |-> [success |-> FALSE, error |-> jsCode.message]]
    ELSE returned(ws, parsed(MapSeq(stripAwait, jsCode.body), firstYPos(ws.top)))

(***************************************************************************)
(* Backend B: Blockly.Python                                               *)
(*                                                                         *)
(* Expression text is a string.  Statement text is a sequence of lines,    *)
(* each with its indentation depth (in units of INDENT), its text and its  *)
(* kind: "header" (ends with a colon and opens a body), "stmt" (an         *)
(* executable statement), "comment" or "blank".  Deferred definitions are  *)
(* the keys of definitions_ in insertion order.                            *)
(***************************************************************************)
ORDER_ATOMIC == 0
ORDER_COLLECTION == 1
ORDER_STRING_CONVERSION == 1
ORDER_MEMBER == 2
ORDER_FUNCTION_CALL == 2
ORDER_EXPONENTIATION == 3
ORDER_UNARY_SIGN == 4
ORDER_BITWISE_NOT == 4
ORDER_MULTIPLICATIVE == 5
ORDER_ADDITIVE == 6
ORDER_BITWISE_SHIFT == 7
ORDER_BITWISE_AND == 8
ORDER_BITWISE_XOR == 9
ORDER_BITWISE_OR == 10
ORDER_RELATIONAL == 11
ORDER_LOGICAL_NOT == 12
ORDER_LOGICAL_AND == 13
ORDER_LOGICAL_OR == 14
ORDER_CONDITIONAL == 15
ORDER_LAMBDA == 16
ORDER_NONE == 99

Line(ind, txt, kind) == [ind |-> ind, txt |-> txt, kind |-> kind]

\* Blockly.Python.PASS = '    pass\n'
PASS == <<Line(1, "pass", "stmt")>>

\* What a rule or blockToCode returns: [code, order], a string, or an exception
PyValue(code, order, defs) ==
    [ok |-> TRUE, isValue |-> TRUE, code |-> code, order |-> order,
     lines |-> <<>>, defs |-> defs]
PyString(lines, defs) ==
    [ok |-> TRUE, isValue |-> FALSE, code |-> "", order |-> 0,
     lines |-> lines, defs |-> defs]
PyThrow(defs) ==
    [ok |-> FALSE, isValue |-> FALSE, code |-> "", order |-> 0,
     lines |-> <<>>, defs |-> defs]

\* definitions_[key] = ...: a key keeps the position of its first insertion
RECURSIVE Merge(_, _)
Merge(d, e) ==
    IF e = <<>> THEN d
    ELSE Merge(IF \E i \in 1..Len(d) : d[i] = Head(e) THEN d ELSE Append(d, Head(e)),
               Tail(e))

\* Blockly.Python.prefixLines(text, INDENT)
prefixLines(lines) == [i \in 1..Len(lines) |-> [lines[i] EXCEPT !.ind = @ + 1]]

\* types for which Blockly.Python.forBlock has a function
PythonRuleTypes ==
    {"enable_torque", "disable_torque", "enable_all", "disable_all", "check_joints",
     "ping_joint", "reboot_joint", "reboot_all", "set_joint", "set_degrees",
     "get_joint", "get_degrees", "move_by", "move_smooth", "get_head_coordinates",
     "set_head_coordinates", "joints_to_coordinates", "coordinates_to_joints",
     "create_coordinates", "get_coordinate", "is_moving", "wait_until_stopped",
     "get_load", "get_temperature", "joint_in_range", "wait", "wait_ms", "get_time",
     "reset_timer", "timer_value", "log", "log_joint", "log_type", "alert",
     "controls_if", "controls_repeat_ext", "controls_whileUntil", "controls_for",
     "controls_forEach", "controls_flow_statements", "logic_boolean", "logic_null",
     "logic_negate", "logic_compare", "logic_operation", "math_number",
     "math_arithmetic", "math_constant", "math_single", "math_trig", "math_round",
     "math_modulo", "math_constrain", "math_random_int", "math_random_float",
     "math_atan2", "text", "text_print", "text_join", "variables_get",
     "variables_set", "lists_create_with"}

\* Blockly.Names: the alias of a name is its safe form, made distinct from
\* the aliases already given out
safeName(name) ==
    IF name = "x$" THEN "x_"
    ELSE IF name = NoName THEN "unnamed"
    ELSE name

Aliases(db) == {db[i].alias : i \in 1..Len(db)}

RECURSIVE getDistinctName(_, _, _)
getDistinctName(base, i, db) ==
    LET cand == IF i = 1 THEN base ELSE base \o ToString(i)
    IN IF cand \in Aliases(db) THEN getDistinctName(base, i + 1, db) ELSE cand

\* nameDB_.getName(name, VARIABLE_CATEGORY_NAME), with the database after it
dbAdd(db, name) ==
    IF \E i \in 1..Len(db) : db[i].name = name THEN db
    ELSE Append(db, [name |-> name, alias |-> getDistinctName(safeName(name), 1, db)])

getName(db, name) ==
    LET d == dbAdd(db, name)
    IN d[CHOOSE i \in 1..Len(d) : d[i].name = name].alias

\* Input names in the order the block definitions declare them
SlotOrder ==
    <<"IF0", "DO0", "IF1", "DO1", "ELSE", "TIMES", "LIST", "BOOL", "VALUE", "AT",
      "FROM", "TO", "BY", "DO", "A", "B", "NUM", "DIVIDEND", "DIVISOR",
      "ADD0", "ADD1", "ADD2", "ADD3", "ADD4", "ADD5", "ADD6",
      "X", "Y", "Z", "ROLL", "PITCH", "YAW", "JOINT", "DEGREES", "AMOUNT",
      "DURATION", "COORDS", "JOINTS", "COORDINATES", "TIMEOUT", "MIN", "MAX",
      "TIME", "MESSAGE", "TEXT">>

\* Variables referenced by a block and everything attached to it, in the
\* order getAllBlocks visits them
RECURSIVE VarsOfBlock(_)
VarsOfBlock(b) ==
    IF b = Null THEN <<>>
    ELSE LET slots == SelectSeq(SlotOrder, LAMBDA s : s \in DOMAIN b.inputs)
         IN (IF "VAR" \in DOMAIN b.fields THEN <<b.fields.VAR>> ELSE <<>>)
            \o Flat([i \in 1..Len(slots) |-> VarsOfBlock(b.inputs[slots[i]])])
            \o VarsOfBlock(b.next)

\* nameDB_.populateVariables(workspace)
RECURSIVE dbAddAll(_, _)
dbAddAll(db, names) ==
    IF names = <<>> THEN db ELSE dbAddAll(dbAdd(db, Head(names)), Tail(names))

populateVariables(db, ws) ==
    dbAddAll(db, Flat([i \in 1..Len(ws.top) |-> VarsOfBlock(ws.top[i].b)]))

RECURSIVE blockToCode(_, _), PythonForBlock(_, _), valueToCode(_, _, _, _),
          statementToCode(_, _, _), valuesToCode(_, _, _, _), controlsIf(_, _, _)

\* block.getInputTargetBlock(name)
getInputTargetBlock(block, name) ==
    IF name \in DOMAIN block.inputs THEN block.inputs[name] ELSE Null

ValueCode(code, defs) == [ok |-> TRUE, code |-> code, defs |-> defs]

\* parensNeeded of valueToCode
parensNeeded_mutBoundaryPair(outerOrder, innerOrder) ==
    outerOrder <= innerOrder /\ ~({outerOrder, innerOrder} \subseteq {0, 99})

parensNeeded(outerOrder, innerOrder) ==
    IF outerOrder <= innerOrder
    THEN ~(outerOrder = innerOrder /\ (outerOrder = 0 \/ outerOrder = 99))
    ELSE FALSE

valueToCode_mutNoParens(block, name, outerOrder, db) ==
    LET targetBlock == getInputTargetBlock(block, name)
        tuple == blockToCode(targetBlock, db)
    IN IF targetBlock = Null THEN ValueCode("", <<>>)
       ELSE IF ~tuple.ok THEN [ok |-> FALSE, code |-> "", defs |-> tuple.defs]
       ELSE ValueCode(tuple.code, tuple.defs)

\* valueToCode from the point where blockToCode has returned tuple
codeOfTuple(tuple, outerOrder) ==
    IF ~tuple.ok THEN [ok |-> FALSE, code |-> "", defs |-> tuple.defs]
    ELSE IF ~tuple.isValue THEN ValueCode("", tuple.defs)
    ELSE IF tuple.code = "" THEN ValueCode("", tuple.defs)
    ELSE ValueCode(IF parensNeeded(outerOrder, tuple.order)
                   THEN "(" \o tuple.code \o ")" ELSE tuple.code,
                   tuple.defs)

valueToCode(block, name, outerOrder, db) ==
    LET targetBlock == getInputTargetBlock(block, name)
    IN IF targetBlock = Null THEN ValueCode("", <<>>)
       ELSE codeOfTuple(blockToCode(targetBlock, db), outerOrder)

statementToCode(block, name, db) ==
    LET code == blockToCode(getInputTargetBlock(block, name), db)
    IN IF ~code.ok THEN code
       ELSE IF code.isValue THEN PyThrow(code.defs)
       ELSE PyString(prefixLines(code.lines), code.defs)

\* scrub_(block, code, thisOnly): the code of the block followed by the code
\* of the chain below it
scrub_(block, code, thisOnly, db) ==
    IF thisOnly \/ ~HasNext(block.type) THEN code
    ELSE LET nextCode == blockToCode(block.next, db)
         IN IF ~nextCode.ok THEN PyThrow(Merge(code.defs, nextCode.defs))
            ELSE PyString(code.lines \o nextCode.lines, Merge(code.defs, nextCode.defs))

blockToCode_mutSkipUnknown(block, db) ==
    IF block = Null THEN PyString(<<>>, <<>>)
    ELSE IF ~block.enabled THEN blockToCode(block.next, db)
    ELSE IF block.type \notin PythonRuleTypes THEN PyString(<<>>, <<>>)
    ELSE LET code == PythonForBlock(block, db)
         IN IF ~code.ok THEN code
            ELSE scrub_(block, code, code.isValue, db)

blockToCode(block, db) ==
    IF block = Null THEN PyString(<<>>, <<>>)
    ELSE IF ~block.enabled THEN blockToCode(block.next, db)
    ELSE IF block.type \notin PythonRuleTypes THEN PyThrow(<<>>)
    ELSE LET code == PythonForBlock(block, db)
         IN IF ~code.ok THEN code
            ELSE scrub_(block, code, code.isValue, db)

\* One valueToCode(block, name, order) || default of a rule
Arg(name, order, dflt) == [name |-> name, order |-> order, dflt |-> dflt]

\* The valueToCode calls of a rule, in order
valuesToCode(block, specs, n, db) ==
    IF n = 0 THEN [ok |-> TRUE, codes |-> <<>>, defs |-> <<>>]
    ELSE LET prev == valuesToCode(block, specs, n - 1, db)
             v == valueToCode(block, specs[n].name, specs[n].order, db)
         IN IF ~prev.ok THEN prev
            ELSE [ok |-> v.ok,
                  codes |-> IF v.ok
                            THEN Append(prev.codes,
                                        IF v.code = "" THEN specs[n].dflt ELSE v.code)
                            ELSE prev.codes,
                  defs |-> Merge(prev.defs, v.defs)]

Values(block, specs, db) == valuesToCode(block, specs, Len(specs), db)

\* A rule that returns one line of statement text
Statement(a, txt, kind, defs) ==
    IF ~a.ok THEN PyThrow(a.defs)
    ELSE PyString(<<Line(0, txt, kind)>>, Merge(a.defs, defs))

\* A rule that returns [code, order]
Expression(a, code, order, defs) ==
    IF ~a.ok THEN PyThrow(a.defs)
    ELSE PyValue(code, order, Merge(a.defs, defs))

NoArgs == [ok |-> TRUE, codes |-> <<>>, defs |-> <<>>]

\* statementToCode(block, name) || PASS
orPass_mutEmpty(lines) == lines

orPass(lines) == IF lines = <<>> THEN PASS ELSE lines

\* A rule that returns a header line followed by the body of input DO
Loop(block, a, header, db) ==
    IF ~a.ok THEN PyThrow(a.defs)
    ELSE LET branch == statementToCode(block, "DO", db)
         IN IF ~branch.ok THEN PyThrow(Merge(a.defs, branch.defs))
            ELSE PyString(<<Line(0, header, "header")>> \o orPass(branch.lines),
                          Merge(a.defs, branch.defs))

\* The do-while loop of controls_if from branch n on, then the else branch
controlsIf(block, n, db) ==
    LET cond == valueToCode(block, "IF" \o ToString(n), ORDER_NONE, db)
        branch == statementToCode(block, "DO" \o ToString(n), db)
        header == Line(0, (IF n = 0 THEN "if " ELSE "elif ")
                          \o (IF cond.code = "" THEN "False" ELSE cond.code) \o ":",
                       "header")
        rest == IF ("IF" \o ToString(n + 1)) \in DOMAIN block.inputs
                THEN controlsIf(block, n + 1, db)
                ELSE IF "ELSE" \in DOMAIN block.inputs
                THEN LET e == statementToCode(block, "ELSE", db)
                     IN IF ~e.ok THEN e
                        ELSE PyString(<<Line(0, "else:", "header")>> \o orPass(e.lines),
                                      e.defs)
                ELSE PyString(<<>>, <<>>)
    IN IF ~cond.ok THEN PyThrow(cond.defs)
       ELSE IF ~branch.ok THEN PyThrow(Merge(cond.defs, branch.defs))
       ELSE IF ~rest.ok THEN PyThrow(Merge(Merge(cond.defs, branch.defs), rest.defs))
       ELSE PyString(<<header>> \o orPass(branch.lines) \o rest.lines,
                     Merge(Merge(cond.defs, branch.defs), rest.defs))
Placeholder(txt) == PyString(<<Line(0, txt, "comment")>>, <<>>)

arithmeticOPERATORS ==
    [ADD |-> [text |-> " + ", order |-> ORDER_ADDITIVE],
     MINUS |-> [text |-> " - ", order |-> ORDER_ADDITIVE],
     MULTIPLY |-> [text |-> " * ", order |-> ORDER_MULTIPLICATIVE],
     DIVIDE |-> [text |-> " / ", order |-> ORDER_MULTIPLICATIVE],
     POWER |-> [text |-> " ** ", order |-> ORDER_EXPONENTIATION]]

compareOPERATORS ==
    [EQ |-> "==", NEQ |-> "!=", LT |-> "<", LTE |-> "<=", GT |-> ">", GTE |-> ">="]

singleOPERATORS ==
    [ROOT |-> "math.sqrt", ABS |-> "abs", NEG |-> "-", LN |-> "math.log",
     LOG10 |-> "math.log10", EXP |-> "math.exp", POW10 |-> "math.pow(10, ",
     SIN |-> "math.sin", COS |-> "math.cos", TAN |-> "math.tan",
     ASIN |-> "math.asin", ACOS |-> "math.acos", ATAN |-> "math.atan"]

trigOPERATORS ==
    [SIN |-> "math.sin", COS |-> "math.cos", TAN |-> "math.tan",
     ASIN |-> "math.asin", ACOS |-> "math.acos", ATAN |-> "math.atan"]

roundOPERATORS == [ROUND |-> "round", ROUNDUP |-> "math.ceil", ROUNDDOWN |-> "math.floor"]

mathCONSTANTS ==
    [PI |-> [text |-> "math.pi", order |-> ORDER_MEMBER],
     E |-> [text |-> "math.e", order |-> ORDER_MEMBER],
     GOLDEN_RATIO |-> [text |-> "(1 + math.sqrt(5)) / 2", order |-> ORDER_MULTIPLICATIVE],
     SQRT2 |-> [text |-> "math.sqrt(2)", order |-> ORDER_FUNCTION_CALL],
     SQRT1_2 |-> [text |-> "math.sqrt(1.0 / 2)", order |-> ORDER_FUNCTION_CALL],
     INFINITY |-> [text |-> "float(\"inf\")", order |-> ORDER_FUNCTION_CALL]]

\* Blockly.Python.quote_
quote_(string) == "\"" \o string \o "\""

\* elements.join(sep)
RECURSIVE join(_, _)
join(elements, sep) ==
    IF elements = <<>> THEN ""
    ELSE IF Len(elements) = 1 THEN elements[1]
    ELSE elements[1] \o sep \o join(Tail(elements), sep)

\* The device and domain rules
PythonForDomainBlock(block, db) ==
    LET t == block.type
    IN CASE t \in {"enable_torque", "disable_torque", "enable_all", "disable_all",
                   "check_joints", "reboot_joint", "reboot_all"} ->
                Placeholder("# " \o t \o " not supported in Python API")
         [] t \in {"ping_joint", "is_moving"} -> PyValue("False", ORDER_ATOMIC, <<>>)
         [] t = "set_joint" ->
                Statement(Values(block, <<Arg("JOINT", ORDER_ATOMIC, "2048")>>, db),
                    "# set_joint not directly supported - use goto_target or set_target instead",
                    "comment", <<>>)
         [] t = "set_degrees" ->
                LET a == Values(block, <<Arg("DEGREES", ORDER_ATOMIC, "0")>>, db)
                    antennaIndex == IF block.fields.MOTOR = "17" THEN "0" ELSE "1"
                IN Statement(a, "mini.set_target(antennas=[np.deg2rad(" \o a.codes[1]
                                \o "), 0] if " \o antennaIndex
                                \o " == 0 else [0, np.deg2rad(" \o a.codes[1] \o ")])",
                             "stmt", <<"import_numpy">>)
         [] t \in {"get_joint", "get_degrees", "get_load", "get_temperature"} ->
                PyValue("0", ORDER_ATOMIC, <<>>)
         [] t = "move_by" ->
                Statement(Values(block, <<Arg("AMOUNT", ORDER_ATOMIC, "0")>>, db),
                          "# move_by not supported in Python API", "comment", <<>>)
         [] t = "move_smooth" ->
                Statement(Values(block, <<Arg("JOINT", ORDER_ATOMIC, "2048"),
                                          Arg("DURATION", ORDER_ATOMIC, "1")>>, db),
                          "# move_smooth - use goto_target with duration instead",
                          "comment", <<>>)
         [] t = "get_head_coordinates" ->
                PyValue("mini.head.pose", ORDER_MEMBER, <<"import_reachy", "import_utils">>)
         [] t = "set_head_coordinates" ->
                LET a == Values(block, <<Arg("COORDS", ORDER_ATOMIC, "np.eye(4)")>>, db)
                IN Statement(a, "mini.goto_target(" \o a.codes[1] \o ", duration=1.0)",
                             "stmt", <<"import_reachy">>)
         [] t = "joints_to_coordinates" ->
                Expression(Values(block, <<Arg("JOINTS", ORDER_ATOMIC, "[]")>>, db),
                           "[]", ORDER_ATOMIC, <<>>)
         [] t = "coordinates_to_joints" ->
                Expression(Values(block, <<Arg("COORDINATES", ORDER_ATOMIC,
                                               "[0,0,0,0,0,0]")>>, db),
                           "[]", ORDER_ATOMIC, <<>>)
         [] t = "create_coordinates" ->
                LET a == Values(block, <<Arg("X", ORDER_ATOMIC, "0"), Arg("Y", ORDER_ATOMIC, "0"),
                                         Arg("Z", ORDER_ATOMIC, "0"),
                                         Arg("ROLL", ORDER_ATOMIC, "0"),
                                         Arg("PITCH", ORDER_ATOMIC, "0"),
                                         Arg("YAW", ORDER_ATOMIC, "0")>>, db)
                IN Expression(a, "create_head_pose(x=" \o a.codes[1] \o ", y=" \o a.codes[2]
                                 \o ", z=" \o a.codes[3] \o ", roll=" \o a.codes[4]
                                 \o ", pitch=" \o a.codes[5] \o ", yaw=" \o a.codes[6]
                                 \o ", degrees=True, mm=True)",
                              ORDER_FUNCTION_CALL, <<"import_utils">>)
         [] t = "get_coordinate" ->
                LET a == Values(block, <<Arg("COORDINATES", ORDER_MEMBER, "np.eye(4)")>>, db)
                    component == block.fields.COMPONENT
                IN IF component \in {"0", "1", "2"}
                   THEN Expression(a, "(" \o a.codes[1] \o ")[" \o component \o ",3]",
                                   ORDER_MEMBER, <<>>)
                   ELSE Expression(a, "0", ORDER_ATOMIC, <<>>)
         [] t = "wait_until_stopped" ->
                Statement(Values(block, <<Arg("TIMEOUT", ORDER_ATOMIC, "5")>>, db),
                          "# wait_until_stopped not supported in Python API", "comment", <<>>)
         [] t = "joint_in_range" ->
                Expression(Values(block, <<Arg("MIN", ORDER_ATOMIC, "-180"),
                                           Arg("MAX", ORDER_ATOMIC, "180")>>, db),
                           "False", ORDER_ATOMIC, <<>>)
         [] t = "wait" ->
                LET a == Values(block, <<Arg("TIME", ORDER_ATOMIC, "1")>>, db)
                IN Statement(a, "time.sleep(" \o a.codes[1] \o ")", "stmt", <<"import_time">>)
         [] t = "wait_ms" ->
                LET a == Values(block, <<Arg("TIME", ORDER_ATOMIC, "100")>>, db)
                IN Statement(a, "time.sleep(" \o a.codes[1] \o " / 1000)", "stmt",
                             <<"import_time">>)
         [] t = "get_time" ->
                PyValue("int(time.time() * 1000)", ORDER_FUNCTION_CALL, <<"import_time">>)
         [] t = "reset_timer" ->
                PyString(<<Line(0, "program_timer = time.time()", "stmt")>>, <<>>)
         [] t = "timer_value" ->
                PyValue("(time.time() - program_timer)", ORDER_ADDITIVE, <<"import_time">>)
         [] t = "log" ->
                LET a == Values(block, <<Arg("MESSAGE", ORDER_ATOMIC, "\"\"")>>, db)
                IN Statement(a, "print(" \o a.codes[1] \o ")", "stmt", <<>>)
         [] t = "log_joint" ->
                PyString(<<Line(0, "print(\"Joint " \o block.fields.MOTOR
                                   \o ":\")  # Joint values not readable in Python API",
                                "stmt")>>, <<>>)
         [] t = "log_type" ->
                LET a == Values(block, <<Arg("MESSAGE", ORDER_ATOMIC, "\"\"")>>, db)
                IN Statement(a, "print(" \o a.codes[1] \o ")  # Log type: "
                                \o block.fields.TYPE, "stmt", <<>>)
         [] t = "alert" ->
                LET a == Values(block, <<Arg("MESSAGE", ORDER_ATOMIC, "\"\"")>>, db)
                IN Statement(a, "print(" \o a.codes[1] \o ")  # Alert", "stmt", <<>>)
\* The rules for the standard blocks
PythonForBuiltinBlock(block, db) ==
    LET t == block.type
    IN CASE t = "controls_if" -> controlsIf(block, 0, db)
         [] t = "controls_repeat_ext" ->
                LET a == Values(block, <<Arg("TIMES", ORDER_NONE, "0")>>, db)
                IN Loop(block, a,
                        "for " \o getDistinctName("count", 1, db) \o " in range(int("
                            \o a.codes[1] \o ")):", db)
         [] t = "controls_whileUntil" ->
                LET until == block.fields.MODE = "UNTIL"
                    a == Values(block, <<Arg("BOOL", IF until THEN ORDER_LOGICAL_NOT
                                                     ELSE ORDER_NONE, "False")>>, db)
                IN Loop(block, a,
                        "while " \o (IF until THEN "not " ELSE "") \o a.codes[1] \o ":", db)
         [] t = "controls_for" ->
                LET a == Values(block, <<Arg("FROM", ORDER_NONE, "0"),
                                         Arg("TO", ORDER_NONE, "0"),
                                         Arg("BY", ORDER_NONE, "1")>>, db)
                IN Loop(block, a,
                        "for " \o getName(db, block.fields.VAR) \o " in range(int("
                            \o a.codes[1] \o "), int(" \o a.codes[2] \o ") + 1, int("
                            \o a.codes[3] \o ")):", db)
         [] t = "controls_forEach" ->
                LET a == Values(block, <<Arg("LIST", ORDER_RELATIONAL, "[]")>>, db)
                IN Loop(block, a,
                        "for " \o getName(db, block.fields.VAR) \o " in "
                            \o a.codes[1] \o ":", db)
         [] t = "controls_flow_statements" ->
                IF block.fields.FLOW = "BREAK"
                THEN PyString(<<Line(0, "break", "stmt")>>, <<>>)
                ELSE IF block.fields.FLOW = "CONTINUE"
                THEN PyString(<<Line(0, "continue", "stmt")>>, <<>>)
                ELSE PyString(<<>>, <<>>)
         [] t = "logic_boolean" ->
                PyValue(IF block.fields.BOOL = "TRUE" THEN "True" ELSE "False",
                        ORDER_ATOMIC, <<>>)
         [] t = "logic_null" -> PyValue("None", ORDER_ATOMIC, <<>>)
         [] t = "logic_negate" ->
                LET a == Values(block, <<Arg("BOOL", ORDER_LOGICAL_NOT, "True")>>, db)
                IN Expression(a, "not " \o a.codes[1], ORDER_LOGICAL_NOT, <<>>)
         [] t = "logic_compare" ->
                LET order == ORDER_RELATIONAL
                    a == Values(block, <<Arg("A", order, "0"), Arg("B", order, "0")>>, db)
                IN Expression(a, a.codes[1] \o " " \o compareOPERATORS[block.fields.OP]
                                 \o " " \o a.codes[2], order, <<>>)
         [] t = "logic_operation" ->
                LET operator == IF block.fields.OP = "AND" THEN "and" ELSE "or"
                    order == IF operator = "and" THEN ORDER_LOGICAL_AND
                             ELSE ORDER_LOGICAL_OR
                    a == Values(block, <<Arg("A", order, "False"),
                                         Arg("B", order, "False")>>, db)
                IN Expression(a, a.codes[1] \o " " \o operator \o " " \o a.codes[2],
                              order, <<>>)
         [] t = "math_number" ->
                PyValue(ToString(block.fields.NUM),
                        IF block.fields.NUM < 0 THEN ORDER_UNARY_SIGN ELSE ORDER_ATOMIC,
                        <<>>)
         [] t = "math_arithmetic" ->
                IF block.fields.OP \notin DOMAIN arithmeticOPERATORS
                THEN PyThrow(<<>>)
                ELSE LET tuple == arithmeticOPERATORS[block.fields.OP]
                         a == Values(block, <<Arg("A", tuple.order, "0"),
                                              Arg("B", tuple.order, "0")>>, db)
                     IN Expression(a, a.codes[1] \o tuple.text \o a.codes[2],
                                   tuple.order, <<>>)
         [] t = "math_constant" ->
                IF block.fields["CONSTANT"] \in DOMAIN mathCONSTANTS
                THEN PyValue(mathCONSTANTS[block.fields["CONSTANT"]].text,
                             mathCONSTANTS[block.fields["CONSTANT"]].order, <<"import_math">>)
                ELSE PyValue("0", ORDER_ATOMIC, <<"import_math">>)
         [] t = "math_single" ->
                IF block.fields.OP \notin DOMAIN singleOPERATORS
                THEN PyThrow(<<>>)
                ELSE LET operator == block.fields.OP
                         func == singleOPERATORS[operator]
                         a == Values(block, <<Arg("NUM", ORDER_NONE, "0")>>, db)
                     IN Expression(a,
                            IF operator = "NEG" THEN func \o a.codes[1]
                            ELSE IF operator = "POW10" THEN func \o a.codes[1] \o ")"
                            ELSE func \o "(" \o a.codes[1] \o ")",
                            IF operator = "NEG" THEN ORDER_UNARY_SIGN
                            ELSE ORDER_FUNCTION_CALL,
                            <<"import_math">>)
         [] t = "math_trig" ->
                LET a == Values(block, <<Arg("NUM", ORDER_NONE, "0")>>, db)
                IN Expression(a, trigOPERATORS[block.fields.OP] \o "(" \o a.codes[1] \o ")",
                              ORDER_FUNCTION_CALL, <<"import_math">>)
         [] t = "math_round" ->
                LET a == Values(block, <<Arg("NUM", ORDER_NONE, "0")>>, db)
                IN Expression(a, roundOPERATORS[block.fields.OP] \o "(" \o a.codes[1] \o ")",
                              ORDER_FUNCTION_CALL,
                              IF block.fields.OP \in {"ROUNDUP", "ROUNDDOWN"}
                              THEN <<"import_math">> ELSE <<>>)
         [] t = "math_modulo" ->
                LET a == Values(block, <<Arg("DIVIDEND", ORDER_MULTIPLICATIVE, "0"),
                                         Arg("DIVISOR", ORDER_MULTIPLICATIVE, "0")>>, db)
                IN Expression(a, a.codes[1] \o " % " \o a.codes[2],
                              ORDER_MULTIPLICATIVE, <<>>)
         [] t = "math_constrain" ->
                LET a == Values(block, <<Arg("VALUE", ORDER_NONE, "0"),
                                         Arg("LOW", ORDER_NONE, "0"),
                                         Arg("HIGH", ORDER_NONE, "0")>>, db)
                IN Expression(a, "min(max(" \o a.codes[1] \o ", " \o a.codes[2] \o "), "
                                 \o a.codes[3] \o ")", ORDER_FUNCTION_CALL, <<>>)
         [] t = "math_random_int" ->
                LET a == Values(block, <<Arg("FROM", ORDER_NONE, "0"),
                                         Arg("TO", ORDER_NONE, "0")>>, db)
                IN Expression(a, "random.randint(" \o a.codes[1] \o ", " \o a.codes[2]
                                 \o ")", ORDER_FUNCTION_CALL, <<"import_random">>)
         [] t = "math_random_float" ->
                PyValue("random.random()", ORDER_FUNCTION_CALL, <<"import_random">>)
         [] t = "math_atan2" ->
                LET a == Values(block, <<Arg("X", ORDER_NONE, "0"),
                                         Arg("Y", ORDER_NONE, "0")>>, db)
                IN Expression(a, "math.atan2(" \o a.codes[2] \o ", " \o a.codes[1] \o ")",
                              ORDER_FUNCTION_CALL, <<"import_math">>)
         [] t = "text" -> PyValue(quote_(block.fields.TEXT), ORDER_ATOMIC, <<>>)
         [] t = "text_print" ->
                LET a == Values(block, <<Arg("TEXT", ORDER_NONE, "\"\"")>>, db)
                IN Statement(a, "print(" \o a.codes[1] \o ")", "stmt", <<>>)
         [] t = "text_join" ->
                LET n == block.fields.itemCount_
                    a == Values(block, [i \in 1..n |-> Arg(AddName(i - 1), ORDER_NONE, "''")],
                                db)
                IN IF n = 0 THEN PyValue("''", ORDER_ATOMIC, <<>>)
                   ELSE Expression(a, "str(" \o join(a.codes, ") + str(") \o ")",
                                   ORDER_FUNCTION_CALL, <<>>)
         [] t = "variables_get" ->
                PyValue(getName(db, block.fields.VAR), ORDER_ATOMIC, <<>>)
         [] t = "variables_set" ->
                LET a == Values(block, <<Arg("VALUE", ORDER_NONE, "0")>>, db)
                IN Statement(a, getName(db, block.fields.VAR) \o " = " \o a.codes[1],
                             "stmt", <<>>)
         [] t = "lists_create_with" ->
                LET n == block.fields.itemCount_
                    a == Values(block, [i \in 1..n |-> Arg(AddName(i - 1), ORDER_NONE, "None")],
                                db)
                IN Expression(a, "[" \o join(a.codes, ", ") \o "]", ORDER_ATOMIC, <<>>)

DomainRuleTypes ==
    {"enable_torque", "disable_torque", "enable_all", "disable_all", "check_joints",
     "ping_joint", "reboot_joint", "reboot_all", "set_joint", "set_degrees",
     "get_joint", "get_degrees", "move_by", "move_smooth", "get_head_coordinates",
     "set_head_coordinates", "joints_to_coordinates", "coordinates_to_joints",
     "create_coordinates", "get_coordinate", "is_moving", "wait_until_stopped",
     "get_load", "get_temperature", "joint_in_range", "wait", "wait_ms", "get_time",
     "reset_timer", "timer_value", "log", "log_joint", "log_type", "alert"}

\* Blockly.Python.forBlock[block.type].call(this, block)
PythonForBlock(block, db) ==
    IF block.type \in DomainRuleTypes THEN PythonForDomainBlock(block, db)
    ELSE PythonForBuiltinBlock(block, db)

\* Blockly.Python.init(workspace): the generator context at the start of a
\* workspaceToCode call
init_mutNoReset(definitions, db, ws) ==
    [definitions_ |-> definitions, nameDB_ |-> populateVariables(db, ws)]

init(definitions, db, ws) ==
    [definitions_ |-> <<>>, nameDB_ |-> populateVariables(<<>>, ws)]

\* workspace.getTopBlocks(true): the roots ordered by position (top to
\* bottom, with a slight left-to-right bias), ties in insertion order
SortKey(root) == 1000 * root.y + 52 * root.x

RECURSIVE getTopBlocks(_)
getTopBlocks(top) ==
    IF top = <<>> THEN <<>>
    ELSE LET n == Len(top)
             sorted == getTopBlocks(SubSeq(top, 1, n - 1))
             k == Cardinality({i \in 1..Len(sorted) : SortKey(sorted[i]) <= SortKey(top[n])})
         IN SubSeq(sorted, 1, k) \o <<top[n]>> \o SubSeq(sorted, k + 1, Len(sorted))

\* The loop of workspaceToCode over the roots, code.join('\n') included: the
\* text of a root that ends with a newline is followed by an empty line
pushLine(prev, line) ==
    LET text == IF line.isValue
                THEN (IF line.code = "" THEN <<>> ELSE <<Line(0, line.code, "value")>>)
                ELSE line.lines
        sep == IF prev.lines # <<>> /\ text # <<>>
                  /\ prev.lines[Len(prev.lines)].kind # "value"
               THEN <<Line(0, "", "blank")>> ELSE <<>>
    IN IF ~prev.ok THEN prev
       ELSE IF ~line.ok THEN PyThrow(Merge(prev.defs, line.defs))
       ELSE PyString(prev.lines \o sep \o text, Merge(prev.defs, line.defs))

RECURSIVE rootsToCode(_, _, _)
rootsToCode(blocks, n, db) ==
    IF n = 0 THEN PyString(<<>>, <<>>)
    ELSE pushLine(rootsToCode(blocks, n - 1, db), blockToCode(blocks[n].b, db))

\* Blockly.Python.workspaceToCode(workspace): the returned text (the
\* definitions, then the code) or the exception, and the generator context
\* the call leaves behind
finish(ctx, code) ==
    LET defs == Merge(ctx.definitions_, code.defs)
    IN [out |-> IF code.ok
                THEN [ok |-> TRUE, defs |-> defs, lines |-> code.lines]
                ELSE [ok |-> FALSE, defs |-> <<>>, lines |-> <<>>],
        definitions_ |-> defs,
        nameDB_ |-> ctx.nameDB_]

generate(ctx, blocks) == finish(ctx, rootsToCode(blocks, Len(blocks), ctx.nameDB_))

workspaceToCode(ws, definitions, db) ==
    generate(init(definitions, db, ws), getTopBlocks(ws.top))

\* The text a definitions_ key was registered with
DefinitionText(key) ==
    CASE key = "import_numpy" -> "import numpy as np"
      [] key = "import_reachy" -> "from reachy_mini import ReachyMini"
      [] key = "import_utils" -> "from reachy_mini.utils import create_head_pose"
      [] key = "import_time" -> "import time"
      [] key = "import_math" -> "import math"
      [] key = "import_random" -> "import random"

\* Blockly.Python.INDENT
INDENT == "    "

RECURSIVE Indentation(_)
Indentation(n) == IF n = 0 THEN "" ELSE INDENT \o Indentation(n - 1)

\* A line of generated code as text; spaces before a line end are removed
LineText(line) == IF line.txt = "" THEN "" ELSE Indentation(line.ind) \o line.txt

\* definitions.join('\n\n') in finish, as lines
RECURSIVE allDefs(_)
allDefs(defs) ==
    IF defs = <<>> THEN <<>>
    ELSE IF Len(defs) = 1 THEN <<DefinitionText(defs[1])>>
    ELSE <<DefinitionText(defs[1]), "">> \o allDefs(Tail(defs))

\* The text workspaceToCode returns, as the lines text.split('\n') gives
\* (<<>> for the empty text): the definitions, two empty lines, the code;
\* white space at the start is removed, white space at the end is reduced
\* to one line end
codeText(out) ==
    LET code == [i \in 1..Len(out.lines) |-> LineText(out.lines[i])]
        ended == IF code # <<>> /\ out.lines[Len(code)].kind # "value"
                 THEN code \o <<"">> ELSE code
    IN IF out.defs = <<>> THEN ended
       ELSE IF code = <<>> THEN allDefs(out.defs) \o <<"">>
       ELSE allDefs(out.defs) \o <<"", "">> \o ended

\* String.prototype.includes
includes(text, needle) ==
    \E i \in 1..(Len(text) - Len(needle) + 1) :
        SubSeq(text, i, i + Len(needle) - 1) = needle

\* code.includes(needle) on a text given by its lines (no needle holds a
\* line end)
codeIncludes(code, needle) == \E i \in 1..Len(code) : includes(code[i], needle)

\* What updateCodeOutput writes for a text without code
DragHere == <<"# Drag blocks here...">>

ReachyImport == "from reachy_mini import ReachyMini"
DocString == "\"\"\"Generated by Blockly for Reachy Mini\"\"\""
WithLine == "with ReachyMini(media_backend=\"no_media\") as mini:"
TimerLine == "    program_timer = time.time()"

\* The imports array of updateCodeOutput
imports(code) ==
    <<ReachyImport>>
    \o (IF codeIncludes(code, "time.") \/ codeIncludes(code, "program_timer")
        THEN <<"import time">> ELSE <<>>)
    \o (IF codeIncludes(code, "np.") THEN <<"import numpy as np">> ELSE <<>>)
    \o (IF codeIncludes(code, "create_head_pose")
        THEN <<"from reachy_mini.utils import create_head_pose">> ELSE <<>>)

\* code.split('\n').map(line => line ? '    ' + line : '')
indentedCode(code) ==
    [i \in 1..Len(code) |-> IF code[i] = "" THEN "" ELSE INDENT \o code[i]]

\* The python branch of window.updateCodeOutput on the text code
updateCodeOutput_mutNoIndent(code) ==
    IF \A i \in 1..Len(code) : code[i] = "" THEN DragHere
    ELSE <<DocString, "">> \o imports(code) \o <<"", WithLine, TimerLine>> \o code

updateCodeOutput(code) ==
    IF \A i \in 1..Len(code) : code[i] = "" THEN DragHere
    ELSE <<DocString, "">> \o imports(code) \o <<"", WithLine, TimerLine>>
         \o indentedCode(code)

(***************************************************************************)
(* Backend A: the Blockly.JavaScript rules of the robot blocks.  The text  *)
(* a rule returns is represented by the syntax tree the parser builds      *)
(* from it: a sequence of statements for a statement block, an expression  *)
(* for a value block.                                                      *)
(***************************************************************************)
\* The number a MOTOR / COMPONENT field value denotes when it appears in text
FieldNumber(v) ==
    CASE v = "0" -> 0 [] v = "1" -> 1 [] v = "2" -> 2 [] v = "3" -> 3 [] v = "4" -> 4
      [] v = "5" -> 5 [] v = "11" -> 11 [] v = "12" -> 12 [] v = "13" -> 13
      [] v = "14" -> 14 [] v = "15" -> 15 [] v = "16" -> 16 [] v = "17" -> 17
      [] v = "18" -> 18

RobotCall(method, args) == Call(Dot("Robot", method), args)

allMotorIds == <<Num(11), Num(12), Num(13), Num(14), Num(15), Num(16), Num(17), Num(18)>>

RECURSIVE JavaScriptForBlock(_)

\* Blockly.JavaScript.valueToCode(block, name, order) || default
jsValueToCode(block, name, dflt) ==
    IF getInputTargetBlock(block, name) = Null THEN dflt
    ELSE JavaScriptForBlock(getInputTargetBlock(block, name))

zeroCoordinates == Arr(<<Num(0), Num(0), Num(0), Num(0), Num(0), Num(0)>>)

JavaScriptForBlock(block) ==
    LET t == block.type
        motor == Num(FieldNumber(block.fields.MOTOR))
        stmt(e) == <<ExprStmt(e)>>
    IN CASE t = "enable_torque" -> stmt(Await(RobotCall("setTorque", <<motor, Bool(TRUE)>>)))
         [] t = "disable_torque" -> stmt(Await(RobotCall("setTorque", <<motor, Bool(FALSE)>>)))
         [] t = "enable_all" ->
                stmt(Await(RobotCall("setTorqueMultiple", <<Arr(allMotorIds), Bool(TRUE)>>)))
         [] t = "disable_all" ->
                stmt(Await(RobotCall("setTorqueMultiple", <<Arr(allMotorIds), Bool(FALSE)>>)))
         [] t = "check_joints" -> stmt(Await(Call(FuncExpr, <<>>)))
         [] t = "ping_joint" ->
                Member(Await(RobotCall("pingMotor", <<motor>>)), Id("ok"), FALSE)
         [] t = "reboot_joint" -> stmt(Await(RobotCall("rebootMotor", <<motor>>)))
         [] t = "reboot_all" -> stmt(Await(RobotCall("rebootAllMotors", <<>>)))
         [] t = "set_joint" ->
                stmt(Await(RobotCall("setPositionLimited",
                                     <<motor, jsValueToCode(block, "JOINT", Num(2048))>>)))
         [] t = "set_degrees" ->
                stmt(Await(RobotCall("setDegrees",
                                     <<motor, jsValueToCode(block, "DEGREES", Num(0))>>)))
         [] t = "get_joint" -> Await(RobotCall("getPosition", <<motor>>))
         [] t = "get_degrees" -> Await(RobotCall("getDegrees", <<motor>>))
         [] t = "move_by" ->
                stmt(Await(RobotCall("setDegrees",
                        <<motor, Bin("+", Await(RobotCall("getDegrees", <<motor>>)),
                                     jsValueToCode(block, "AMOUNT", Num(0)))>>)))
         [] t = "move_smooth" ->
                stmt(Await(RobotCall("moveSmooth",
                        <<motor, jsValueToCode(block, "JOINT", Num(2048)),
                          Bin("*", jsValueToCode(block, "DURATION", Num(1)), Num(1000))>>)))
         [] t = "get_head_coordinates" ->
                RobotCall("jointsToCoordinates", <<Await(RobotCall("getAllPositions", <<>>))>>)
         [] t = "set_head_coordinates" ->
                stmt(Await(RobotCall("setAllPositions",
                        <<RobotCall("coordinatesToJoints",
                                    <<jsValueToCode(block, "COORDS", zeroCoordinates)>>)>>)))
         [] t = "joints_to_coordinates" ->
                RobotCall("jointsToCoordinates", <<jsValueToCode(block, "JOINTS", Arr(<<>>))>>)
         [] t = "coordinates_to_joints" ->
                RobotCall("coordinatesToJoints",
                          <<jsValueToCode(block, "COORDINATES", zeroCoordinates)>>)
         [] t = "create_coordinates" ->
                Arr([i \in 1..6 |-> jsValueToCode(block, coordinateFieldNames[i], Num(0))])
         [] t = "get_coordinate" ->
                Member(jsValueToCode(block, "COORDINATES", zeroCoordinates),
                       Num(FieldNumber(block.fields.COMPONENT)), TRUE)
         [] t = "is_moving" ->
                Bin(">",
                    Call(Dot("Math", "abs"),
                         <<Bin("-", Await(RobotCall("getDegrees", <<motor>>)),
                               RobotCall("positionToDegrees",
                                   <<Logic("||", Member(Id("motorPositionCache"), motor, TRUE),
                                           Num(2048))>>))>>),
                    Num(1))
         [] t = "get_load" -> Await(RobotCall("getLoad", <<motor>>))
         [] t = "get_temperature" -> Await(RobotCall("getTemperature", <<motor>>))
         [] t = "joint_in_range" -> Call(FuncExpr, <<>>)
         [] t = "wait" ->
                stmt(Await(Call(Id("wait"), <<jsValueToCode(block, "TIME", Num(1))>>)))
         [] t = "wait_ms" ->
                stmt(Await(Call(Id("sleep"), <<jsValueToCode(block, "TIME", Num(100))>>)))
         [] t = "get_time" -> Call(Dot("Date", "now"), <<>>)
         [] t = "reset_timer" ->
                stmt(Assign("=", Id("programTimer"), Call(Dot("Date", "now"), <<>>)))
         [] t = "timer_value" ->
                Bin("/", Bin("-", Call(Dot("Date", "now"), <<>>), Id("programTimer")),
                    Num(1000))
         [] t = "log" ->
                stmt(Call(Id("logConsole"), <<jsValueToCode(block, "MESSAGE", Str(""))>>))
         [] t = "log_joint" ->
                stmt(Call(Id("logConsole"),
                     <<Bin("+",
                           Bin("+", Str("Joint " \o block.fields.MOTOR \o ": "),
                               Call(Member(Await(RobotCall("getDegrees", <<motor>>)),
                                           Id("toFixed"), FALSE), <<Num(1)>>)),
                           Str("deg")),
                       Str("info")>>))
         [] t = "log_type" ->
                stmt(Call(Id("logConsole"), <<jsValueToCode(block, "MESSAGE", Str("")),
                                              Str(block.fields.TYPE)>>))
         [] t = "alert" ->
                stmt(Call(Id("alert"), <<jsValueToCode(block, "MESSAGE", Str(""))>>))
         \* the standard rules for the literal and variable blocks
         [] t = "math_number" -> Num(block.fields.NUM)
         [] t = "text" -> Str(block.fields.TEXT)
         [] t = "logic_boolean" -> Bool(block.fields.BOOL = "TRUE")
         [] t = "variables_get" -> Id(block.fields.VAR)
         [] t = "lists_create_with" ->
                Arr([i \in 1..block.fields.itemCount_ |->
                        jsValueToCode(block, AddName(i - 1), Id("null"))])
         [] OTHER -> [type |-> "Unsupported"]

\* The statement list the parser reads from the text generated for a block:
\* the text of a value block is an expression statement
generatedProgram(block) ==
    IF HasOutput(block.type) THEN <<ExprStmt(JavaScriptForBlock(block))>>
    ELSE JavaScriptForBlock(block)

(***************************************************************************)
(* The workspace machine: jsToBlocks calls, workspace loads and Backend B  *)
(* generation on one workspace.                                            *)
(***************************************************************************)
MaxRoots == 2

Stmt(e) == ExprStmt(e)
SetTorqueOn == Stmt(RobotCall("setTorque", <<Num(11), Bool(TRUE)>>))
WaitOne == Stmt(Await(Call(Id("wait"), <<Num(1)>>)))

\* Statements processStatement has no rule for, and a call processCall has
\* no rule for
DoWhile == [type |-> "DoWhileStatement"]
UnknownCall == Stmt(Call(Id("f"), <<>>))
SetX == Stmt(Assign("=", Id("x"), Num(1)))

\* Programs in which statements without a rule stand between, before and
\* after statements that translate to statement blocks
DropPrograms ==
    { Source(<<FuncDecl("f")>>),
      Source(<<FuncDecl("f"), SetTorqueOn>>),
      Source(<<SetTorqueOn, FuncDecl("f"), WaitOne>>),
      Source(<<SetTorqueOn, WaitOne, UnknownCall>>),
      Source(<<DoWhile, SetTorqueOn, UnknownCall, FuncDecl("f"), WaitOne>>),
      Source(<<FuncDecl("f"), SetX, DoWhile,
               VarDecl(<<Declarator("a", Num(1)), Declarator("b", Num(2))>>),
               UnknownCall,
               If(Id("x"), Block(<<WaitOne, FuncDecl("g"), SetTorqueOn>>), Null),
               FuncDecl("h"), WaitOne>>) }

\* Expression statements whose expression translates to a value block
GetPosition == Stmt(RobotCall("getPosition", <<Num(11)>>))
ValueStatements ==
    {Stmt(Bin("+", Id("a"), Num(1))), Stmt(Bin("<", Id("a"), Num(1))), Stmt(Id("a")),
     Stmt(Num(5)), GetPosition, Stmt(Await(RobotCall("getPosition", <<Num(11)>>)))}

ValuePrograms ==
    {Source(<<s>>) : s \in ValueStatements}
        \cup {Source(<<SetTorqueOn, GetPosition, WaitOne>>),
              Source(<<Stmt(Num(5)), SetTorqueOn>>)}

\* Loops and conditionals with bodies of several statements
CountTo3(body) ==
    For(VarDecl(<<Declarator("i", Num(0))>>), Bin("<", Id("i"), Num(3)), Update(Id("i")),
        Block(body))
WhileX(body) == While(Bin("<", Id("x"), Num(3)), Block(body))

Bodies ==
    {<<SetTorqueOn, WaitOne, SetTorqueOn>>,
     <<FuncDecl("f"), SetTorqueOn, UnknownCall, DoWhile, WaitOne>>,
     <<SetX, VarDecl(<<Declarator("a", Num(1)), Declarator("b", Num(2))>>), WaitOne>>,
     <<UnknownCall>>,
     <<SetTorqueOn, GetPosition, WaitOne>>,
     <<Stmt(Bin("+", Id("a"), Num(1))), WaitOne>>}

BodyPrograms ==
    {Source(<<CountTo3(body)>>) : body \in Bodies}
        \cup {Source(<<WhileX(body)>>) : body \in Bodies}
        \cup {Source(<<If(Id("x"), Block(body), Null)>>) : body \in Bodies}
        \cup {Source(<<If(Id("x"), Block(<<WaitOne>>), Block(body))>>) : body \in Bodies}
        \cup {Source(<<WhileX(<<SetTorqueOn, If(Id("y"), Block(body), Null), WaitOne>>)>>) :
                  body \in Bodies}

\* for-statements: initializers (a declaration, an assignment, none), tests
\* and updates of several shapes
ForInits ==
    {VarDecl(<<Declarator("k", Num(2))>>),
     VarDecl(<<Declarator("i", Bin("+", Id("a"), Num(1))), Declarator("n", Num(9))>>),
     Assign("=", Id("k"), Num(2)),
     Null}
ForTests ==
    {Bin("<", Id("k"), Num(5)), Bin("<=", Id("k"), Id("n")), Bin(">", Num(5), Id("k"))}
ForUpdates == {Update(Id("k")), Assign("+=", Id("k"), Num(2))}

ForPrograms ==
    {Source(<<For(i, t, u, Block(<<WaitOne>>))>>) :
        i \in ForInits, t \in ForTests, u \in ForUpdates}

\* Program texts handed to jsToBlocks
Programs ==
    DropPrograms \cup ValuePrograms \cup
    { Source(<<SetTorqueOn, WaitOne>>),
      Source(<<Stmt(Assign("=", Id("x"), Num(1))),
               Stmt(Assign("=", Dot("obj", "y"), Num(2)))>>),
      Source(<<If(Id("x"), Block(<<SetTorqueOn>>), Null)>>),
      Source(<<If(Id("x"), Block(<<WaitOne>>),
                  Block(<<Stmt(RobotCall("reboot", <<Num(17)>>))>>))>>),
      Source(<<While(Bin("<", Id("x"), Num(3)),
                     Block(<<If(Id("y"), Block(<<SetTorqueOn, SetTorqueOn>>), Null)>>))>>),
      Source(<<For(VarDecl(<<Declarator("i", Num(0))>>), Bin("<", Id("i"), Num(3)),
                   Update(Id("i")),
                   Block(<<Stmt(RobotCall("setDegrees", <<Num(17), Id("i")>>))>>))>>),
      Source(<<Stmt(Assign("=", Id("x$"), Num(1)))>>),
      Source(<<Stmt(Assign("=", Id("x_"), Bin("+", Id("a"), Bin("*", Id("b"), Id("c")))))>>),
      BadSource("Unexpected token (1:4)"),
      BadSource("Unterminated string constant (1:12)") }

ParserMessages == {p.message : p \in {q \in Programs : ~q.parses}}

Disabled(b) == [b EXCEPT !.enabled = FALSE]

\* Blocks used to build the workspaces that can be loaded
variableGet(name) == MakeBlock("variables_get", [VAR |-> name], {})
setIndexBlock ==
    [MakeBlock("lists_setIndex", [MODE |-> "SET", WHERE |-> "FROM_START"],
               {"LIST", "AT", "TO"})
     EXCEPT !.inputs.LIST = variableGet("arr"), !.inputs.AT = mathNumber(1),
            !.inputs.TO = mathNumber(3)]
getIndexBlock ==
    [MakeBlock("lists_getIndex", [MODE |-> "GET", WHERE |-> "FROM_START"], {"VALUE", "AT"})
     EXCEPT !.inputs.VALUE = variableGet("arr"), !.inputs.AT = mathNumber(1)]
waitBlock == [MakeBlock("wait", [none |-> ""], {"TIME"}) EXCEPT !.inputs.TIME = mathNumber(1)]
logBlock ==
    [MakeBlock("log", [none |-> ""], {"MESSAGE"}) EXCEPT !.inputs.MESSAGE = mathNumber(1)]
torqueBlock == MakeBlock("enable_torque", [MOTOR |-> "11"], {})
setBlock(value) == connectValue(setFieldValue(newBlock("variables_set"), "VAR", "x"),
                                "VALUE", value)
ifBlockWith(body) ==
    [connectValue(newBlock("controls_if"), "IF0",
                  variableGet("x"))
     EXCEPT !.inputs.DO0 = body]
elifBlock ==
    [MakeBlock("controls_if", [elseifCount_ |-> 1, elseCount_ |-> 1],
               {"IF0", "DO0", "IF1", "DO1", "ELSE"})
     EXCEPT !.inputs.DO0 = torqueBlock, !.inputs.DO1 = waitBlock, !.inputs.ELSE = torqueBlock]
setVar(name) == connectValue(setFieldValue(newBlock("variables_set"), "VAR", name),
                             "VALUE", mathNumber(1))
degreesBlock ==
    [MakeBlock("set_degrees", [MOTOR |-> "17"], {"DEGREES"}) EXCEPT !.inputs.DEGREES = mathNumber(30)]
repeatBlock ==
    [connectValue(newBlock("controls_repeat_ext"), "TIMES", mathNumber(3))
     EXCEPT !.inputs.DO = Link(torqueBlock, torqueBlock)]

\* Control blocks around a body (Null for an empty statement slot)
WithBody(block, slot, body) == [block EXCEPT !.inputs[slot] = body]
whileWith(body) ==
    WithBody(connectValue(newBlock("controls_whileUntil"), "BOOL", variableGet("x")),
             "DO", body)
untilWith(body) == setFieldValue(whileWith(body), "MODE", "UNTIL")
forWith(body) ==
    WithBody(connectValue(connectValue(newBlock("controls_for"), "FROM", mathNumber(1)),
                          "TO", mathNumber(3)),
             "DO", body)
forEachWith(body) ==
    WithBody(connectValue(newBlock("controls_forEach"), "LIST", variableGet("arr")),
             "DO", body)
repeatWith(body) ==
    WithBody(connectValue(newBlock("controls_repeat_ext"), "TIMES", mathNumber(3)),
             "DO", body)
ifElseWith(body, other) ==
    WithBody(WithBody(connectValue(MakeBlock("controls_if", [elseCount_ |-> 1],
                                             {"IF0", "DO0", "ELSE"}),
                                   "IF0", variableGet("x")),
                      "DO0", body),
             "ELSE", other)
elifWith(body, second, other) ==
    WithBody(WithBody(WithBody(elifBlock, "DO0", body), "DO1", second), "ELSE", other)

\* Bodies that render to no text: an empty slot, disabled blocks
EmptyBodies == {Null, Disabled(waitBlock), Link(Disabled(waitBlock), Disabled(torqueBlock))}

\* Control blocks with empty bodies, alone, next to other statements and
\* nested in each other
ControlBlocks ==
    UNION {{whileWith(e), untilWith(e), forWith(e), forEachWith(e), repeatWith(e),
            ifBlockWith(e), ifElseWith(e, e), ifElseWith(waitBlock, e),
            ifElseWith(e, waitBlock), elifWith(e, waitBlock, e), elifWith(waitBlock, e, Null),
            whileWith(ifBlockWith(e)), ifElseWith(e, whileWith(e)),
            forWith(repeatWith(forEachWith(e))),
            whileWith(Link(waitBlock, ifBlockWith(e))),
            whileWith(Link(ifElseWith(e, e), waitBlock)),
            Link(repeatWith(e), repeatWith(whileWith(e)))} : e \in EmptyBodies}

Workspace(blocks) ==
    [top |-> [i \in 1..Len(blocks) |-> Root(blocks[i], 50, 50 + 80 * (i - 1))],
     variables |-> UnionAll([i \in 1..Len(blocks) |->
                        {VarsOfBlock(blocks[i])[j] : j \in 1..Len(VarsOfBlock(blocks[i]))}])]

\* Workspaces a saved file can hold
Graphs ==
    { Workspace(<<>>),
      Workspace(<<setIndexBlock>>),
      Workspace(<<Disabled(setIndexBlock)>>),
      Workspace(<<Link(waitBlock, setIndexBlock)>>),
      Workspace(<<setBlock(getIndexBlock)>>),
      Workspace(<<Disabled(setBlock(getIndexBlock))>>),
      Workspace(<<setBlock(Disabled(getIndexBlock))>>),
      Workspace(<<ifBlockWith(setIndexBlock)>>),
      Workspace(<<Disabled(ifBlockWith(setIndexBlock))>>),
      Workspace(<<ifBlockWith(Link(waitBlock, setIndexBlock))>>),
      Workspace(<<Link(Disabled(waitBlock), setIndexBlock)>>),
      Workspace(<<elifBlock>>),
      Workspace(<<repeatBlock>>),
      Workspace(<<degreesBlock>>),
      Workspace(<<setVar("x$"), waitBlock>>),
      Workspace(<<setVar("x_")>>),
      Workspace(<<setVar("x_"), setVar("x$")>>) }
    \cup {Workspace(<<b>>) : b \in ControlBlocks}
    \cup {Workspace(<<whileWith(Null), forWith(Null)>>)}
    \cup {Workspace(<<logBlock>>), Workspace(<<Link(logBlock, waitBlock)>>)}

NoCode == Source(<<>>)
Op(name, code) == [name |-> name, code |-> code]

EmptyWorkspace == [top |-> <<>>, variables |-> {}]
NoOutput == [ok |-> TRUE, defs |-> <<>>, lines |-> <<>>]
NoResult == [success |-> TRUE, error |-> ""]

ExprIdle ==
    /\ exprIn = Null /\ exprRes = NoRes /\ exprPy = PyString(<<>>, <<>>) /\ exprPhase = "idle"
RtIdle ==
    /\ rtDir = "idle" /\ rtSrc = Null /\ rtBlock = Null /\ rtText = <<>>
    /\ rtBack = Null /\ rtPhase = "idle"
OrdIdle ==
    /\ ordOuter = 0 /\ ordTuple = PyString(<<>>, <<>>) /\ ordCode = "" /\ ordPhase = "idle"

\* The AI assistant after the page has loaded
MaxRuns == 2
AiIdle ==
    /\ aiInput = "" /\ aiSendDisabled = FALSE /\ aiChatHistory = <<>>
    /\ aiRuns = [i \in 1..MaxRuns |-> "idle"]

\* Programs: nothing started, no timer, nothing sent
MaxProgs == 2
Undefined == 0 - 1
Motors == {17, 18}
NoCall ==
    [kind |-> "none", id |-> 0, startPos |-> 0, targetPos |-> 0, durationMs |-> 0,
     steps |-> 0, step |-> 0]
IdleRun == [status |-> "idle", code |-> <<>>, pc |-> 1, at |-> "none", call |-> NoCall]
NoTimer ==
    [active |-> FALSE, total |-> [num |-> 0, den |-> 1], elapsed |-> 0, state |-> "none",
     called |-> "none"]
NoWait == [ticks |-> 0, settles |-> 0, firstStop |-> 0, settledAt |-> 0]
NoWasm == [by |-> 0, name |-> "none", arg |-> <<>>]
RunIdle ==
    /\ stopRequested = FALSE
    /\ runs = [i \in 1..MaxProgs |-> IdleRun]
    /\ timers = [i \in 1..MaxProgs |-> NoTimer]
    /\ motorPositionCache = [id \in Motors |-> Undefined]
    /\ wasmLast = NoWasm
    /\ stopped = [i \in 1..MaxProgs |-> FALSE]
    /\ lateCmds = [i \in 1..MaxProgs |-> 0]
    /\ waitLog = [i \in 1..MaxProgs |-> NoWait]

\* The Robot object after the page has loaded
ConnIdle ==
    /\ connected = FALSE /\ pollingInterval = 0 /\ intervals = {} /\ intervalCount = 0
    /\ pendingConnects = 0 /\ pendingDisconnects = 0 /\ statusConnected = FALSE
    /\ afterDisconnect = FALSE

AsyncIdle == AiIdle /\ RunIdle /\ ConnIdle

Init ==
    /\ workspace = EmptyWorkspace
    /\ result = NoResult
    /\ lastOp = Op("init", NoCode)
    /\ definitions_ = <<>>
    /\ nameDB_ = <<>>
    /\ pyOut = NoOutput
    /\ codeOutput = DragHere
    /\ libStrict \in BOOLEAN
    /\ ExprIdle
    /\ RtIdle
    /\ OrdIdle
    /\ AsyncIdle

\* window.jsToBlocks(jsCode)
JsToBlocks(jsCode) ==
    /\ Len(workspace.top) < MaxRoots
    /\ \E r \in {jsToBlocks(workspace, jsCode)} :
          /\ workspace' = r.workspace
          /\ result' = r.result
    /\ lastOp' = Op("jsToBlocks", jsCode)
    /\ UNCHANGED <<definitions_, nameDB_, pyOut, codeOutput, libStrict>>
    /\ UNCHANGED <<exprVars, rtVars, ordVars, asyncVars>>

\* loadWorkspace: Blockly.Xml.clearWorkspaceAndLoadFromXml(xml, workspace)
LoadWorkspace(g) ==
    /\ workspace' = g
    /\ lastOp' = Op("loadWorkspace", NoCode)
    /\ UNCHANGED <<result, definitions_, nameDB_, pyOut, codeOutput, libStrict>>
    /\ UNCHANGED <<exprVars, rtVars, ordVars, asyncVars>>

\* updateCodeOutput with the language set to python: an exception of the
\* generator leaves the element as it was
PythonWorkspaceToCode ==
    /\ \E r \in {workspaceToCode(workspace, definitions_, nameDB_)} :
          /\ pyOut' = r.out
          /\ codeOutput' = IF r.out.ok THEN updateCodeOutput(codeText(r.out))
                           ELSE codeOutput
          /\ definitions_' = r.definitions_
          /\ nameDB_' = r.nameDB_
    /\ lastOp' = Op("workspaceToCode", NoCode)
    /\ UNCHANGED <<workspace, result, libStrict>>
    /\ UNCHANGED <<exprVars, rtVars, ordVars, asyncVars>>

Next ==
    \/ \E jsCode \in Programs : JsToBlocks(jsCode)
    \/ PythonWorkspaceToCode

Spec == Init /\ [][Next]_vars

\* Translation of loops and conditionals with bodies of several statements
NextBody ==
    \/ \E jsCode \in BodyPrograms : JsToBlocks(jsCode)
    \/ PythonWorkspaceToCode

SpecBody == Init /\ [][NextBody]_vars

\* Translation of for-statements
NextFor ==
    \/ \E jsCode \in ForPrograms : JsToBlocks(jsCode)
    \/ PythonWorkspaceToCode

SpecFor == Init /\ [][NextFor]_vars

\* if-statements without else, with an else block, with an else that is a
\* single statement, and with chained else-if
IfY(body, other) == If(Id("y"), Block(body), other)
ElseBranches ==
    {Null, Block(<<>>), Block(<<SetTorqueOn, WaitOne>>), Block(<<UnknownCall, WaitOne>>),
     WaitOne,
     IfY(<<SetTorqueOn>>, Null),
     IfY(<<SetTorqueOn>>, Block(<<WaitOne>>)),
     Block(<<IfY(<<SetTorqueOn>>, Null)>>)}

IfPrograms == {Source(<<If(Id("x"), Block(<<WaitOne>>), other)>>) : other \in ElseBranches}

NextIf ==
    \/ \E jsCode \in IfPrograms : JsToBlocks(jsCode)
    \/ PythonWorkspaceToCode

SpecIf == Init /\ [][NextIf]_vars

\* Generation on workspaces loaded from files
NextLoad ==
    \/ \E g \in Graphs : LoadWorkspace(g)
    \/ PythonWorkspaceToCode

SpecLoad == Init /\ [][NextLoad]_vars

(***************************************************************************)
(* The expression pipeline: one expression is translated by                *)
(* processExpression and the block it yields is rendered by Backend B.     *)
(***************************************************************************)
Atoms == {Id("a"), Id("b"), Num(2)}
Parts == {Id("a"), Num(2), Str("s")}

\* sums and products nested in each other, in either operand slot
PrecedenceExprs ==
    UNION {{Bin("+", x, Bin("*", y, z)), Bin("+", Bin("*", x, y), z),
            Bin("*", Bin("+", x, y), z), Bin("*", x, Bin("+", y, z))} :
           x \in Atoms, y \in Atoms, z \in {Id("c"), Num(2)}}

\* + chains with and without string literals
PlusExprs ==
    {Bin("+", x, y) : x \in Parts, y \in Parts}
    \cup UNION {{Bin("+", Bin("+", x, y), z), Bin("+", x, Bin("+", y, z))} :
                x \in Parts, y \in Parts, z \in {Id("b"), Str("t")}}
    \cup {Bin("+", Bin("*", Id("a"), Str("s")), Id("b")),
          Bin("+", Bin("-", Str("s"), Id("a")), Id("b")),
          Bin("+", Str("s"), Call(Id("f"), <<>>)),
          Bin("+", Id("a"), Call(Id("f"), <<>>))}

\* index expressions of arr[i] and arr[i] = v
IndexExprs ==
    {Num(0), Num(1), Num(5), Id("i"), Bin("+", Id("i"), Num(1)),
     Bin("-", Id("n"), Num(1)), Str("k"), Un("-", Num(1)),
     RobotCall("getPosition", <<Num(11)>>), Update(Id("i")), Call(Id("f"), <<>>),
     Assign("=", Id("k"), Num(1))}

IndexedExprs ==
    {Member(Id("arr"), i, TRUE) : i \in IndexExprs}
    \cup {Assign("=", Member(Id("arr"), i, TRUE), Num(3)) : i \in IndexExprs}

\* the other expression forms processExpression and processCall translate
OtherExprs ==
    {Dot("arr", "length"), Dot("Math", "PI"),
     Bin("%", Id("a"), Num(2)), Bin("-", Id("a"), Num(2)), Bin("/", Id("a"), Num(2)),
     Bin("<", Id("a"), Num(2)), Bin("===", Id("a"), Num(2)),
     Logic("&&", Id("a"), Bool(TRUE)), Logic("||", Id("a"), Bool(FALSE)),
     Un("-", Id("a")), Un("!", Id("a")), Un("-", Bin("+", Id("a"), Num(2))),
     Call(Dot("Math", "sin"), <<Id("a")>>), Call(Dot("Math", "floor"), <<Id("a")>>),
     Call(Dot("Math", "abs"), <<Id("a")>>), Call(Dot("Math", "sqrt"), <<Num(2)>>),
     Call(Dot("Date", "now"), <<>>),
     Arr(<<Num(0), Num(0), Num(2), Num(0), Num(0), Num(0)>>), Arr(<<Num(1), Num(2)>>),
     Assign("=", Id("x"), Num(1)), Assign("+=", Id("x"), Num(1)),
     Assign("%=", Id("x"), Num(2)), Assign("=", Dot("obj", "y"), Num(2)),
     Un("-", Bin("*", Id("a"), Num(2))), Un("-", Bin("<", Id("a"), Num(2))),
     Un("-", Logic("&&", Id("a"), Id("b"))), Un("-", Un("-", Id("a"))),
     Un("-", Call(Dot("Math", "abs"), <<Id("a")>>)),
     RobotCall("setDegrees", <<Num(17), Num(30)>>),
     RobotCall("moveSmooth", <<Num(17), Num(2048), Num(500)>>),
     RobotCall("setTorque", <<Num(11), Bool(TRUE)>>),
     RobotCall("getHeadCoordinates", <<>>),
     RobotCall("isMoving", <<Num(11)>>),
     Call(Id("wait"), <<Num(1)>>), Call(Id("sleep"), <<Num(100)>>),
     Call(Id("logConsole"), <<Str("hi")>>)}

\* degree conversions around trigonometric calls, and shapes close to them
MathPI == Dot("Math", "PI")
DegToRad(x) == Bin("/", Bin("*", x, MathPI), Num(180))
RadToDeg(x) == Bin("/", Bin("*", x, Num(180)), MathPI)
TrigNames == {"sin", "cos", "tan", "asin", "acos", "atan"}
MathCall(f, x) == Call(Dot("Math", f), <<x>>)

TrigExprs ==
    UNION {{MathCall(f, Id("a")), MathCall(f, DegToRad(Id("a"))),
            MathCall(f, DegToRad(Bin("+", Id("a"), Num(2)))),
            RadToDeg(MathCall(f, Id("a"))),
            RadToDeg(MathCall(f, Bin("/", Id("a"), Num(2))))} : f \in TrigNames}
    \cup {MathCall("cos", Bin("/", Bin("*", MathPI, Id("a")), Num(180))),
          MathCall("cos", Bin("*", Id("a"), Bin("/", MathPI, Num(180)))),
          MathCall("cos", Bin("/", Bin("*", Id("a"), MathPI), Num(90))),
          MathCall("cos", Bin("/", Bin("*", Id("a"), MathPI), Str("180"))),
          MathCall("cos", Bin("/", Bin("+", Id("a"), MathPI), Num(180))),
          MathCall("cos", RadToDeg(Id("a"))),
          MathCall("abs", DegToRad(Id("a"))),
          RadToDeg(MathCall("abs", Id("a"))),
          RadToDeg(Id("a")),
          Bin("/", Bin("*", Num(180), MathCall("asin", Id("a"))), MathPI),
          Bin("*", MathCall("asin", Id("a")), Bin("/", Num(180), MathPI)),
          Bin("/", Bin("*", MathCall("asin", Id("a")), Num(90)), MathPI),
          DegToRad(MathCall("asin", Id("a")))}

\* array literals of several lengths; an element is a number, or at one
\* position a name, a sum, a call without translation, a statement call, a
\* hole or a nested array
Numbers(n) == [i \in 1..n |-> Num(i)]
ArrayElements ==
    {Id("a"), Bin("+", Id("a"), Num(2)), Call(Id("f"), <<>>),
     Call(Id("wait"), <<Num(1)>>), Null, Arr(Numbers(6))}

ArrayExprs ==
    {Arr(Numbers(n)) : n \in {0, 1, 2, 3, 5, 6, 7}}
    \cup UNION {{Arr([Numbers(n) EXCEPT ![k] = e]) : k \in {1, 4, n}, e \in ArrayElements} :
                n \in {5, 6, 7}}

Expressions ==
    PrecedenceExprs \cup PlusExprs \cup IndexedExprs \cup OtherExprs \cup TrigExprs
        \cup ArrayExprs

WsIdle ==
    /\ workspace = EmptyWorkspace /\ result = NoResult /\ lastOp = Op("init", NoCode)
    /\ definitions_ = <<>> /\ nameDB_ = <<>> /\ pyOut = NoOutput
    /\ codeOutput = DragHere

InitExpr ==
    /\ WsIdle
    /\ libStrict \in BOOLEAN
    /\ exprIn \in Expressions
    /\ exprRes = NoRes
    /\ exprPy = PyString(<<>>, <<>>)
    /\ exprPhase = "src"
    /\ RtIdle
    /\ OrdIdle
    /\ AsyncIdle

\* processExpression(node, false)
TranslateExpr ==
    /\ exprPhase = "src"
    /\ exprRes' = exprBlock(exprIn, FALSE)
    /\ exprPhase' = "blocks"
    /\ UNCHANGED <<exprIn, exprPy, libStrict, wsVars, rtVars, ordVars, asyncVars>>

\* Blockly.Python.blockToCode(block) on the translated block, after init
RenderExpr ==
    /\ exprPhase = "blocks"
    /\ exprRes.b # Null
    /\ \E db \in {dbAddAll(<<>>, VarsOfBlock(exprRes.b))} :
          exprPy' = blockToCode(exprRes.b, db)
    /\ exprPhase' = "text"
    /\ UNCHANGED <<exprIn, exprRes, libStrict, wsVars, rtVars, ordVars, asyncVars>>

NextExpr == TranslateExpr \/ RenderExpr

SpecExpr == InitExpr /\ [][NextExpr]_vars

(***************************************************************************)
(* The round trip between text and blocks through Backend A.  Direction    *)
(* "text": a call statement is translated and the block is rendered back.  *)
(* Direction "node": a domain block is rendered and the text is            *)
(* translated back.                                                        *)
(***************************************************************************)
MotorArgs == {Num(11), Num(17), Num(18)}

\* One statement per call form of processCall
CallStatements ==
    {Stmt(c) : c \in
        UNION {{RobotCall("setPositionLimited", <<m, Num(2048)>>),
                RobotCall("getPosition", <<m>>),
                RobotCall("setTorque", <<m, Bool(TRUE)>>),
                RobotCall("setTorque", <<m, Bool(FALSE)>>),
                RobotCall("moveSmooth", <<m, Num(2048), Num(500)>>),
                RobotCall("moveSmooth", <<m, Num(2048), Num(0)>>),
                RobotCall("setDegrees", <<m, Num(30)>>),
                RobotCall("getDegrees", <<m>>),
                RobotCall("isMoving", <<m>>),
                RobotCall("getLoad", <<m>>),
                RobotCall("getTemperature", <<m>>),
                Call(Id("logJoint"), <<m>>),
                RobotCall("ping", <<m>>),
                RobotCall("reboot", <<m>>)} : m \in MotorArgs}
        \cup {RobotCall("setTorqueMultiple", <<Arr(allMotorIds), Bool(TRUE)>>),
              RobotCall("setTorqueMultiple", <<Arr(<<Num(17), Num(18)>>), Bool(FALSE)>>),
              Call(Id("logConsole"), <<Str("hi")>>),
              Call(Id("alert"), <<Str("hi")>>),
              Call(Id("sleep"), <<Num(100)>>),
              Call(Id("wait"), <<Num(1)>>),
              RobotCall("checkAllMotors", <<>>),
              RobotCall("setHeadCoordinates", <<zeroCoordinates>>),
              RobotCall("setHeadCoordinates", <<Id("c")>>),
              RobotCall("getHeadCoordinates", <<>>),
              RobotCall("setAllPositions", <<Id("joints")>>),
              RobotCall("jointsToCoordinates", <<Id("joints")>>),
              RobotCall("coordinatesToJoints", <<Id("c")>>),
              RobotCall("rebootAll", <<>>)}}

\* The domain block types that have a Blockly.JavaScript rule
\* (wait_until_stopped, whose text is a timed polling loop, is left out)
BackendATypes ==
    {"enable_torque", "disable_torque", "enable_all", "disable_all", "check_joints",
     "ping_joint", "reboot_joint", "reboot_all", "set_joint", "set_degrees",
     "get_joint", "get_degrees", "move_by", "move_smooth", "get_head_coordinates",
     "set_head_coordinates", "joints_to_coordinates", "coordinates_to_joints",
     "create_coordinates", "get_coordinate", "is_moving", "get_load",
     "get_temperature", "joint_in_range", "wait", "wait_ms", "get_time",
     "reset_timer", "timer_value", "log", "log_joint", "log_type", "alert"}

\* Blocks of a type: every MOTOR option, inputs empty or holding a literal
BlocksOfType(t) ==
    LET base == IF MotorOptions(t) = {} THEN {newBlock(t)}
                ELSE {setFieldValue(newBlock(t), "MOTOR", m) : m \in MotorOptions(t)}
    IN base \cup {connectValue(b, s, IF s = "MESSAGE"
                                     THEN setFieldValue(newBlock("text"), "TEXT", "hi")
                                     ELSE mathNumber(5)) :
                  b \in base, s \in InputsOf(t)}

DomainBlocks == UNION {BlocksOfType(t) : t \in BackendATypes}

\* The first root jsToBlocks creates for a program on an empty workspace
firstRoot(r) ==
    IF r.result.success /\ r.workspace.top # <<>> THEN r.workspace.top[1].b ELSE Null

translated(body) == firstRoot(jsToBlocks(EmptyWorkspace, Source(body)))

InitRt ==
    /\ WsIdle
    /\ libStrict \in BOOLEAN
    /\ ExprIdle
    /\ OrdIdle
    /\ rtDir \in {"text", "node"}
    /\ IF rtDir = "text"
       THEN rtSrc \in CallStatements /\ rtBlock = Null
       ELSE rtSrc = Null /\ rtBlock \in DomainBlocks
    /\ rtText = <<>>
    /\ rtBack = Null
    /\ rtPhase = "start"
    /\ AsyncIdle

\* jsToBlocks on the source statement, or on the generated text
RtTranslate ==
    /\ \/ /\ rtDir = "text" /\ rtPhase = "start"
          /\ rtBlock' = translated(<<rtSrc>>)
          /\ rtPhase' = "mid"
          /\ UNCHANGED rtBack
       \/ /\ rtDir = "node" /\ rtPhase = "mid"
          /\ rtBack' = translated(rtText)
          /\ rtPhase' = "done"
          /\ UNCHANGED rtBlock
    /\ UNCHANGED <<rtDir, rtSrc, rtText, libStrict, wsVars, exprVars, ordVars, asyncVars>>

\* Blockly.JavaScript on the block
RtGenerate ==
    /\ \/ /\ rtDir = "text" /\ rtPhase = "mid" /\ rtBlock # Null
          /\ rtPhase' = "done"
       \/ /\ rtDir = "node" /\ rtPhase = "start"
          /\ rtPhase' = "mid"
    /\ rtText' = generatedProgram(rtBlock)
    /\ UNCHANGED <<rtDir, rtSrc, rtBlock, rtBack, libStrict, wsVars, exprVars, ordVars, asyncVars>>

NextRt == RtTranslate \/ RtGenerate

SpecRt == InitRt /\ [][NextRt]_vars

(***************************************************************************)
(* Comparing two call statements by the operation they perform.            *)
(***************************************************************************)
RECURSIVE Canon(_)

IsRobotCall(e, name) ==
    /\ e.type = "CallExpression"
    /\ e.callee = Dot("Robot", name)

\* The operation an expression performs: await is dropped, a product of two
\* literals is its value, and Robot.setHeadCoordinates /
\* Robot.getHeadCoordinates stand for the compositions that define them
Canon(e) ==
    IF e = Null THEN Null
    ELSE IF e.type = "AwaitExpression" THEN Canon(e.argument)
    ELSE IF e.type = "ExpressionStatement" THEN ExprStmt(Canon(e.expression))
    ELSE IF e.type = "BinaryExpression"
    THEN LET l == Canon(e.left)
             r == Canon(e.right)
         IN IF e.operator = "*" /\ IsNumLit(l) /\ IsNumLit(r)
            THEN Num(l.value * r.value)
            ELSE Bin(e.operator, l, r)
    ELSE IF e.type = "ArrayExpression"
    THEN Arr([i \in 1..Len(e.elements) |-> Canon(e.elements[i])])
    ELSE IF e.type = "CallExpression"
    THEN LET args == [i \in 1..Len(e.arguments) |-> Canon(e.arguments[i])]
         IN IF /\ IsRobotCall(e, "setAllPositions")
               /\ Len(args) = 1
               /\ IsRobotCall(args[1], "coordinatesToJoints")
            THEN RobotCall("setHeadCoordinates", args[1].arguments)
            ELSE IF /\ IsRobotCall(e, "jointsToCoordinates")
                    /\ Len(args) = 1
                    /\ IsRobotCall(args[1], "getAllPositions")
            THEN RobotCall("getHeadCoordinates", <<>>)
            ELSE Call(e.callee, args)
    ELSE e

\* C1: a call statement that processCall recognises, translated and rendered
\* back by Backend A, is one statement performing the same operation with the
\* same argument values (await ignored)
C1_RoundTripSameCall ==
    (rtDir = "text" /\ rtPhase = "done")
        => /\ Len(rtText) = 1
           /\ Canon(rtText[1]) = Canon(rtSrc)

\* C5: every domain block with a Backend A rule, rendered and translated
\* back, gives a block of the same type with the same MOTOR field
C5_NodeRoundTripSameType ==
    (rtDir = "node" /\ rtPhase = "done")
        => /\ rtBack # Null
           /\ rtBack.type = rtBlock.type
           /\ ("MOTOR" \in DOMAIN rtBlock.fields
                  => /\ "MOTOR" \in DOMAIN rtBack.fields
                     /\ rtBack.fields.MOTOR = rtBlock.fields.MOTOR)

\* C2: a jsToBlocks call that returns a failure result leaves the workspace
\* as it was and reports the message of the parser's exception
C2_FailureLeavesWorkspace ==
    [][(lastOp'.name = "jsToBlocks" /\ ~result'.success)
          => /\ workspace' = workspace
             /\ result'.error = lastOp'.code.message
             /\ result'.error \in ParserMessages]_vars

\* C3: every block the translator creates for an expression is rendered by
\* Backend B without throwing
C3_EveryTranslatedBlockRenders ==
    (exprPhase = "text") => exprPy.ok

\* A line that executes: a statement, a value or a nested header
Executable(line) == line.kind \in {"stmt", "value", "header"}

\* The lines of the body of the header at position i: those up to the next
\* executable line that is not indented deeper than the header
BodyEnd(lines, i) ==
    LET ends == {j \in (i + 1)..Len(lines) :
                    Executable(lines[j]) /\ lines[j].ind <= lines[i].ind}
    IN IF ends = {} THEN Len(lines) + 1
       ELSE CHOOSE j \in ends : \A k \in ends : j <= k

HasExecutableBody(lines, i) ==
    \E j \in (i + 1)..(BodyEnd(lines, i) - 1) :
        Executable(lines[j]) /\ lines[j].ind = lines[i].ind + 1

\* C4: in every generated Python text each header line is followed by an
\* indented body holding at least one executable statement
C4_HeadersHaveBodies ==
    (lastOp.name = "workspaceToCode" /\ pyOut.ok)
        => \A i \in 1..Len(pyOut.lines) :
              pyOut.lines[i].kind = "header" => HasExecutableBody(pyOut.lines, i)

(***************************************************************************)
(* Blocks without a render rule, and the generator's context.              *)
(***************************************************************************)
RECURSIVE ContainsUnsupported(_), ReachesUnsupported(_)

Unsupported(b) == b.enabled /\ b.type \notin PythonRuleTypes

\* An enabled block without a rule sits somewhere in the stack headed by b
ContainsUnsupported(b) ==
    /\ b # Null
    /\ \/ Unsupported(b)
       \/ \E s \in DOMAIN b.inputs : ContainsUnsupported(b.inputs[s])
       \/ ContainsUnsupported(b.next)

\* The same, not counting what is plugged into a slot of a disabled block
ReachesUnsupported(b) ==
    /\ b # Null
    /\ IF b.enabled
       THEN \/ Unsupported(b)
            \/ \E s \in DOMAIN b.inputs : ReachesUnsupported(b.inputs[s])
            \/ ReachesUnsupported(b.next)
       ELSE ReachesUnsupported(b.next)

Generated == lastOp.name = "workspaceToCode"
NoText == ~pyOut.ok /\ pyOut.lines = <<>> /\ pyOut.defs = <<>>

\* C6 as stated: an enabled block without a render rule anywhere in the
\* workspace makes generation throw and return no text
C6_UnsupportedAnywhereThrows ==
    (Generated /\ \E i \in 1..Len(workspace.top) : ContainsUnsupported(workspace.top[i].b))
        => NoText

\* C6 amended: an enabled block without a render rule that is not plugged
\* into a slot of a disabled block makes generation throw and return no
\* text, wherever it sits (root, chain, value slot, nested body)
C6_ReachedUnsupportedThrows ==
    (Generated /\ \E i \in 1..Len(workspace.top) : ReachesUnsupported(workspace.top[i].b))
        => NoText

C6_Witness ==
    /\ Generated
    /\ workspace = Workspace(<<ifBlockWith(Link(waitBlock, setIndexBlock))>>)
    /\ NoText

\* C7: the generated text, the deferred definitions and the variable aliases
\* after a generation are those a generation from a fresh context gives for
\* the same workspace, and every alias belongs to a variable of the workspace
C7_OutputDependsOnGraphOnly ==
    Generated
        => LET fresh == workspaceToCode(workspace, <<>>, <<>>)
           IN /\ pyOut = fresh.out
              /\ definitions_ = fresh.definitions_
              /\ nameDB_ = fresh.nameDB_
              /\ \A i \in 1..Len(nameDB_) : nameDB_[i].name \in workspace.variables

C7_Witness ==
    /\ Generated
    /\ workspace = Workspace(<<setVar("x$"), waitBlock>>)
    /\ pyOut.ok
    /\ pyOut.defs = <<"import_time">>
    /\ getName(nameDB_, "x$") = "x_"

(***************************************************************************)
(* Properties of the translation and rendering of single expressions.      *)
(***************************************************************************)
RECURSIVE ExpectedText(_)

IsSum(e) == e.type = "BinaryExpression" /\ e.operator = "+"
IsProduct(e) == e.type = "BinaryExpression" /\ e.operator = "*"

\* The text of a sum or product of names and numbers: a sum that is an
\* operand of a product is parenthesised, nothing else is
ExpectedText(e) ==
    IF e.type = "Identifier" THEN e.name
    ELSE IF e.type = "Literal" THEN ToString(e.value)
    ELSE LET operand(x) == IF IsProduct(e) /\ IsSum(x)
                           THEN "(" \o ExpectedText(x) \o ")"
                           ELSE ExpectedText(x)
         IN operand(e.left) \o " " \o e.operator \o " " \o operand(e.right)

\* C8: a product as operand of a sum is rendered without parentheses, a sum
\* as operand of a product with parentheses, in either operand slot
C8_PrecedenceParentheses ==
    (exprPhase = "text" /\ exprIn \in PrecedenceExprs)
        => /\ exprPy.ok
           /\ exprPy.code = ExpectedText(exprIn)

C8_Witness ==
    /\ exprPhase = "text"
    /\ exprIn = Bin("*", Id("a"), Bin("+", Id("b"), Num(2)))
    /\ exprPy.code = "a * (b + 2)"

\* The block a translation plugs into a value slot: none when the expression
\* has no translation or translates to a statement block
Plugged(node) ==
    LET r == exprBlock(node, FALSE)
    IN IF r.b # Null /\ HasOutput(r.b.type) THEN r.b ELSE Null

IsIndexed(e) ==
    \/ e.type = "MemberExpression" /\ e.computed
    \/ e.type = "AssignmentExpression" /\ e.left.type = "MemberExpression" /\ e.left.computed
IndexOf(e) == IF e.type = "MemberExpression" THEN e.property ELSE e.left.property

IsAddOne(at, index) ==
    /\ at # Null
    /\ at.type = "math_arithmetic"
    /\ at.fields.OP = "ADD"
    /\ at.inputs.A = Plugged(index)
    /\ at.inputs.B = mathNumber(1)

Translated == exprPhase \in {"blocks", "text"} /\ exprRes.b # Null

\* C9 as stated: the index slot of arr[i] and arr[i] = v holds the literal
\* k + 1 for a numeric literal index k, otherwise an addition of the
\* translated index and 1
C9_IndexSlotAlwaysShifted ==
    (Translated /\ IsIndexed(exprIn))
        => LET index == IndexOf(exprIn)
               at == exprRes.b.inputs.AT
           IN IF IsNumLit(index)
              THEN at = mathNumber(index.value + 1)
              ELSE IsAddOne(at, index)

\* C9 amended: as above when the index expression has a translation; when it
\* has none the index slot is left empty
C9_IndexSlotShifted ==
    (Translated /\ IsIndexed(exprIn))
        => LET index == IndexOf(exprIn)
               at == exprRes.b.inputs.AT
           IN IF IsNumLit(index)
              THEN at = mathNumber(index.value + 1)
              ELSE IF exprBlock(index, FALSE).b = Null
              THEN at = Null
              ELSE IsAddOne(at, index)

C9_Witness ==
    /\ Translated
    /\ exprIn = Assign("=", Member(Id("arr"), Id("i"), TRUE), Num(3))
    /\ exprRes.b.type = "lists_setIndex"
    /\ exprRes.b.inputs.AT.type = "math_arithmetic"
    /\ exprRes.b.inputs.AT.inputs.A.type = "variables_get"

\* C10: a + expression becomes a text_join with one slot per flattened
\* operand, in order, exactly when a flattened operand is a string literal;
\* otherwise an addition of the translations of its left and right operands
C10_ConcatenationOrAddition ==
    (Translated /\ IsSum(exprIn))
        => LET parts == flattenStringConcat(exprIn)
               b == exprRes.b
           IN IF \E i \in 1..Len(parts) : IsStrLit(parts[i])
              THEN /\ b.type = "text_join"
                   /\ b.fields.itemCount_ = Len(parts)
                   /\ DOMAIN b.inputs = {AddName(i - 1) : i \in 1..Len(parts)}
                   /\ \A i \in 1..Len(parts) : b.inputs[AddName(i - 1)] = Plugged(parts[i])
              ELSE /\ b.type = "math_arithmetic"
                   /\ b.fields.OP = "ADD"
                   /\ b.inputs.A = Plugged(exprIn.left)
                   /\ b.inputs.B = Plugged(exprIn.right)

C10_Witness ==
    /\ Translated
    /\ exprIn = Bin("+", Bin("+", Id("a"), Str("s")), Id("b"))
    /\ exprRes.b.type = "text_join"
    /\ exprRes.b.inputs[AddName(1)].type = "text"

(***************************************************************************)
(* The degree-conversion idiom around trigonometric calls.                 *)
(***************************************************************************)
IsMathPI(e) ==
    /\ e.type = "MemberExpression"
    /\ e.object = Id("Math")
    /\ e.property = Id("PI")

IsMathCallOf(e, names) ==
    /\ e.type = "CallExpression"
    /\ e.callee.type = "MemberExpression"
    /\ e.callee.object = Id("Math")
    /\ e.callee.property.type = "Identifier"
    /\ e.callee.property.name \in names
    /\ Len(e.arguments) >= 1

\* (inner * Math.PI) / 180
IsDegToRad(e) ==
    /\ e.type = "BinaryExpression" /\ e.operator = "/"
    /\ e.right = Num(180)
    /\ e.left.type = "BinaryExpression" /\ e.left.operator = "*"
    /\ IsMathPI(e.left.right)

\* (x * 180) / Math.PI
IsRadToDeg(e) ==
    /\ e.type = "BinaryExpression" /\ e.operator = "/"
    /\ IsMathPI(e.right)
    /\ e.left.type = "BinaryExpression" /\ e.left.operator = "*"
    /\ e.left.right = Num(180)

\* fn((inner * Math.PI) / 180) with fn in {sin, cos, tan}
IsForwardIdiom(e) ==
    /\ IsMathCallOf(e, {"sin", "cos", "tan"})
    /\ IsDegToRad(e.arguments[1])

\* (fn(x) * 180) / Math.PI with fn in {asin, acos, atan}
IsInverseIdiom(e) ==
    /\ IsRadToDeg(e)
    /\ IsMathCallOf(e.left.left, {"asin", "acos", "atan"})

TrigOp(f) ==
    CASE f = "sin" -> "SIN" [] f = "cos" -> "COS" [] f = "tan" -> "TAN"
      [] f = "asin" -> "ASIN" [] f = "acos" -> "ACOS" [] f = "atan" -> "ATAN"

\* b is a single math_trig block for call over the translation of operand
IsTrigOver(b, call, operand) ==
    /\ b.type = "math_trig"
    /\ b.fields.OP = TrigOp(call.callee.property.name)
    /\ b.inputs.NUM = Plugged(operand)

\* C11: the conversion is collapsed into one math_trig block over the inner
\* operand exactly for fn((inner * Math.PI) / 180) with fn in {sin, cos, tan}
\* and for (fn(x) * 180) / Math.PI with fn in {asin, acos, atan}; in every
\* other case a trig call keeps its whole argument and a division stays a
\* division of the translations of its operands
C11_TrigIdiomExactlyTwoShapes ==
    (Translated /\ exprIn \in TrigExprs)
        => LET b == exprRes.b
           IN IF IsForwardIdiom(exprIn)
              THEN IsTrigOver(b, exprIn, exprIn.arguments[1].left.left)
              ELSE IF IsInverseIdiom(exprIn)
              THEN IsTrigOver(b, exprIn.left.left, exprIn.left.left.arguments[1])
              ELSE IF IsMathCallOf(exprIn, TrigNames)
              THEN IsTrigOver(b, exprIn, exprIn.arguments[1])
              ELSE IF exprIn.type = "BinaryExpression"
              THEN /\ b.type = "math_arithmetic"
                   /\ b.fields.OP = opMap[exprIn.operator]
                   /\ b.inputs.A = Plugged(exprIn.left)
                   /\ b.inputs.B = Plugged(exprIn.right)
              ELSE b.type = "math_single"

(***************************************************************************)
(* Array literals.                                                         *)
(***************************************************************************)
PoseSlots == <<"X", "Y", "Z", "ROLL", "PITCH", "YAW">>

\* C12: an array literal becomes a create_coordinates block, element i in
\* the i-th of the slots X, Y, Z, ROLL, PITCH, YAW, exactly when it has six
\* elements; with any other length it becomes a lists_create_with block with
\* one slot per element (a slot holds the translation of its element, and
\* stays empty when the element has none)
C12_SixElementsArePose ==
    (Translated /\ exprIn.type = "ArrayExpression")
        => LET el == exprIn.elements
               b == exprRes.b
           IN IF Len(el) = 6
              THEN /\ b.type = "create_coordinates"
                   /\ DOMAIN b.inputs = {PoseSlots[i] : i \in 1..6}
                   /\ \A i \in 1..6 : b.inputs[PoseSlots[i]] = Plugged(el[i])
              ELSE /\ b.type = "lists_create_with"
                   /\ b.fields.itemCount_ = Len(el)
                   /\ DOMAIN b.inputs = {AddName(i - 1) : i \in 1..Len(el)}
                   /\ \A i \in 1..Len(el) : b.inputs[AddName(i - 1)] = Plugged(el[i])

C12_Witness ==
    /\ Translated
    /\ exprIn = Arr([Numbers(6) EXCEPT ![4] = Id("a")])
    /\ exprRes.b.type = "create_coordinates"
    /\ exprRes.b.inputs.ROLL = variableGet("a")
    /\ exprRes.b.inputs.YAW = mathNumber(6)

(***************************************************************************)
(* Statements without a translation rule among top-level statements.       *)
(***************************************************************************)
RECURSIVE ChainOf(_, _)

HasNoRule(s) ==
    \/ s.type \in {"FunctionDeclaration", "DoWhileStatement"}
    \/ s = UnknownCall

\* The translations of the first n statements, each linked below the one
\* before it
ChainOf(stmts, n) ==
    IF n = 0 THEN Null
    ELSE IF n = 1 THEN stmtBlock(stripAwait(stmts[1])).b
    ELSE Link(ChainOf(stmts, n - 1), stmtBlock(stripAwait(stmts[n])).b)

RECURSIVE NoTextBody(_), Skeleton(_, _)

Mark(depth, what) == [ind |-> depth, what |-> what]

\* A nested chain that is absent or renders to empty text
NoTextBody(b) == b = Null \/ (~b.enabled /\ NoTextBody(b.next))

\* The body below a header at the given depth: one pass line when the
\* nested chain is absent or renders to no text
BodyMarks(block, slot, depth) ==
    IF NoTextBody(block.inputs[slot]) THEN <<Mark(depth + 1, "pass")>>
    ELSE Skeleton(block.inputs[slot], depth + 1)

\* One header per branch of a control block
Branches(block) ==
    CASE block.type = "controls_if" ->
            <<"DO0">> \o (IF "DO1" \in DOMAIN block.inputs THEN <<"DO1">> ELSE <<>>)
                      \o (IF "ELSE" \in DOMAIN block.inputs THEN <<"ELSE">> ELSE <<>>)
      [] block.type \in {"controls_for", "controls_repeat_ext", "controls_whileUntil",
                         "controls_forEach"} -> <<"DO">>
      [] OTHER -> <<>>

\* The headers, pass lines and other lines of the text of a chain
Skeleton(b, depth) ==
    IF b = Null THEN <<>>
    ELSE IF ~b.enabled THEN Skeleton(b.next, depth)
    ELSE (IF Branches(b) = <<>> THEN <<Mark(depth, "line")>>
          ELSE Flat([i \in 1..Len(Branches(b)) |->
                       <<Mark(depth, "header")>> \o BodyMarks(b, Branches(b)[i], depth)]))
         \o Skeleton(b.next, depth)

\* What a line of generated text is
MarkOf(line) ==
    Mark(line.ind, IF line.kind = "header" THEN "header"
                   ELSE IF line.txt = "pass" THEN "pass" ELSE "line")

IsControlGraph == \A i \in 1..Len(workspace.top) : workspace.top[i].b \in ControlBlocks \cup {whileWith(Null), forWith(Null)}

\* C14: in the text of a control block every branch (if, elif, else, counted
\* loop, repeat, while, for-each) is a header, and a branch whose nested
\* chain is absent or renders to no text has exactly one pass line as its
\* body, one indentation unit deeper than its header, at every nesting depth
C14_EmptyBodyIsOnePass ==
    (Generated /\ IsControlGraph)
        => /\ pyOut.ok
           /\ LET text == SelectSeq(pyOut.lines, LAMBDA l : l.kind # "blank")
              IN [i \in 1..Len(text) |-> MarkOf(text[i])]
                    = Flat([i \in 1..Len(workspace.top) |->
                               Skeleton(workspace.top[i].b, 0)])

C14_Witness ==
    /\ Generated
    /\ workspace = Workspace(<<forWith(repeatWith(forEachWith(Disabled(waitBlock))))>>)
    /\ Len(pyOut.lines) = 4
    /\ pyOut.lines[3] = Line(2, "for i in arr:", "header")
    /\ pyOut.lines[4] = Line(3, "pass", "stmt")


(***************************************************************************)
(* C15.  For every non-empty workspace, the Backend B program written by   *)
(* updateCodeOutput consists of the import lines, then the header line     *)
(* that acquires the robot, then the timer initialisation, then every      *)
(* non-blank line of the generated text in its original order, each        *)
(* indented by exactly one more level of four spaces.  (The program text   *)
(* opens with a title line, which is not counted against the claim.)       *)
(***************************************************************************)
NonBlank(text) == SelectSeq(text, LAMBDA l : l # "")

IsImportLine(l) ==
    \/ Len(l) >= 7 /\ SubSeq(l, 1, 7) = "import "
    \/ Len(l) >= 5 /\ SubSeq(l, 1, 5) = "from "

\* the preamble (title, imports, header, timer), then the body
IsWrapped(program, body) ==
    \E k \in 1..Len(program) :
        /\ program[1] = DocString
        /\ \A i \in 2..(k - 1) : IsImportLine(program[i])
        /\ program[k] = WithLine
        /\ k + 1 <= Len(program) /\ program[k + 1] = TimerLine
        /\ Len(program) = k + 1 + Len(body)
        /\ \A i \in 1..Len(body) : program[k + 1 + i] = INDENT \o body[i]

Updated == lastOp.name = "workspaceToCode" /\ pyOut.ok

\* the claim as stated: every workspace that holds a block
C15_EveryNonEmptyWorkspaceIsWrapped ==
    (Updated /\ workspace.top # <<>>)
        => IsWrapped(NonBlank(codeOutput), NonBlank(codeText(pyOut)))

\* C15, amended: every workspace whose generated text has a non-blank line is
\* wrapped that way, and a workspace whose generated text is blank (an empty
\* one, or one with disabled blocks only) gives the one-line hint instead
C15_GeneratedTextIsWrapped ==
    Updated =>
        IF NonBlank(codeText(pyOut)) # <<>>
        THEN IsWrapped(NonBlank(codeOutput), NonBlank(codeText(pyOut)))
        ELSE codeOutput = DragHere

C15_Witness ==
    /\ Updated
    /\ workspace = Workspace(<<forWith(repeatWith(forEachWith(Disabled(waitBlock))))>>)
    /\ Len(codeOutput) = 11
    /\ codeOutput[3] = ReachyImport
    /\ codeOutput[5] = WithLine
    /\ codeOutput[10] = INDENT \o INDENT \o INDENT \o INDENT \o "pass"
    /\ codeOutput[11] = ""


(***************************************************************************)
(* C16.  In the Backend B program text produced for a workspace, each      *)
(* required import line appears exactly once, however many blocks require  *)
(* it and whether it was registered as a deferred definition or found by   *)
(* the text scan.                                                          *)
(***************************************************************************)
RECURSIVE Unindented(_)
Unindented(l) ==
    IF Len(l) > 0 /\ SubSeq(l, 1, 1) = " " THEN Unindented(SubSeq(l, 2, Len(l))) ELSE l

ImportKeys ==
    {"import_numpy", "import_reachy", "import_utils", "import_time", "import_math",
     "import_random"}

\* registered as a deferred definition, or found by the scan of the text
Required(key) ==
    \/ \E i \in 1..Len(pyOut.defs) : pyOut.defs[i] = key
    \/ \E i \in 1..Len(imports(codeText(pyOut))) :
          imports(codeText(pyOut))[i] = DefinitionText(key)

\* the number of lines of the program that are this import statement
Copies(key) ==
    Cardinality({i \in 1..Len(codeOutput) : Unindented(codeOutput[i]) = DefinitionText(key)})

C16_ImportsAppearOnce ==
    (Updated /\ NonBlank(codeText(pyOut)) # <<>>)
        => \A key \in ImportKeys : Required(key) => Copies(key) = 1


(***************************************************************************)
(* valueToCode alone, on every pair of precedence levels: the order the    *)
(* parent slot requires and the tuple the rule of the child returned.      *)
(***************************************************************************)
Orders == (0..ORDER_LAMBDA) \cup {ORDER_NONE}

ChildTexts == {"", "x", "a + b"}

InitOrder ==
    /\ WsIdle
    /\ libStrict = FALSE
    /\ ExprIdle
    /\ RtIdle
    /\ ordOuter \in Orders
    /\ \E code \in ChildTexts, innerOrder \in Orders :
          ordTuple = PyValue(code, innerOrder, <<>>)
    /\ ordCode = ""
    /\ ordPhase = "start"
    /\ AsyncIdle

\* Blockly.Python.valueToCode(block, name, ordOuter) on a slot whose child
\* rendered as ordTuple
ValueToCode ==
    /\ ordPhase = "start"
    /\ ordCode' = codeOfTuple(ordTuple, ordOuter).code
    /\ ordPhase' = "done"
    /\ UNCHANGED <<ordOuter, ordTuple, libStrict, wsVars, exprVars, rtVars, asyncVars>>

NextOrder == ValueToCode

SpecOrder == InitOrder /\ [][NextOrder]_vars

(***************************************************************************)
(* C17.  For every pair of precedence levels (outer required by the parent *)
(* slot, inner returned by the child rule), valueToCode wraps the child's  *)
(* text in parentheses if and only if outer <= inner, except that the two  *)
(* boundary levels (0 atomic and 99 none) are never wrapped against each   *)
(* other.                                                                  *)
(***************************************************************************)
IsWrappedText == ordCode = "(" \o ordTuple.code \o ")"
IsBareText == ordCode = ordTuple.code

Rendered == ordPhase = "done" /\ ordTuple.code # ""

IsValueOnly(s) == s \in ValueStatements

\* C18: an expression statement whose expression produces only a value block
\* (arithmetic, comparison, identifier, literal, a call such as
\* Robot.getPosition) translates to null: jsToBlocks adds no root and no
\* chain element for it, so the workspace gets exactly the chain of the other
\* statements of the program
C18_ValueStatementsGiveNoBlock ==
    [][(lastOp'.name = "jsToBlocks" /\ lastOp'.code \in ValuePrograms)
          => LET kept == SelectSeq(lastOp'.code.body, LAMBDA s : ~IsValueOnly(s))
                 n == Len(workspace.top)
             IN IF kept = <<>>
                THEN workspace'.top = workspace.top
                ELSE /\ Len(workspace'.top) = n + 1
                     /\ SubSeq(workspace'.top, 1, n) = workspace.top
                     /\ workspace'.top[n + 1].b = ChainOf(kept, Len(kept))]_vars


(***************************************************************************)
(* Bodies of loops and conditionals.                                       *)
(***************************************************************************)
\* The body slots of the block of a loop or conditional, with the
\* statements of each body
BodySlots(node) ==
    IF node.type = "IfStatement"
    THEN <<[slot |-> "DO0", stmts |-> node.consequent.body]>>
         \o (IF HasBody(node.alternate)
             THEN <<[slot |-> "ELSE", stmts |-> node.alternate.body]>> ELSE <<>>)
    ELSE <<[slot |-> "DO", stmts |-> node.body.body]>>

\* statements that were not dropped: their translation is a block
IsKept(s) == stmtBlock(stripAwait(s)).b # Null

\* each body slot of block holds the chain of the kept statements of its body
BodiesAttached(block, node) ==
    \A i \in 1..Len(BodySlots(node)) :
        LET kept == SelectSeq(BodySlots(node)[i].stmts, IsKept)
        IN block.inputs[BodySlots(node)[i].slot]
              = IF kept = <<>> THEN Null ELSE ChainOf(kept, Len(kept))

IsNestedProgram(p) ==
    /\ p.body[1].type = "WhileStatement"
    /\ Len(p.body[1].body.body) = 3
    /\ p.body[1].body.body[2].type = "IfStatement"

\* C19: for every loop or if/else body, the chain attached to the body slot of
\* the parent block, followed through its next links, visits exactly the
\* translations of the statements that were not dropped, in source order,
\* and no block created for a body statement is left unattached in the
\* workspace (the translation adds one root, the parent block)
C19_BodyChainHoldsAllStatements ==
    [][(lastOp'.name = "jsToBlocks" /\ lastOp'.code \in BodyPrograms)
          => LET n == Len(workspace.top)
                 node == lastOp'.code.body[1]
             IN /\ Len(workspace'.top) = n + 1
                /\ BodiesAttached(workspace'.top[n + 1].b, node)
                /\ IsNestedProgram(lastOp'.code)
                      => BodiesAttached(workspace'.top[n + 1].b.inputs.DO.next,
                                        node.body.body[2])]_vars


(***************************************************************************)
(* The counted loop built from a for-statement.                            *)
(***************************************************************************)
\* The identifier and the right-hand side of an initializer
InitName(initializer) ==
    IF initializer.type = "VariableDeclaration" THEN NameOf(initializer.declarations[1].id)
    ELSE NameOf(initializer.left)
InitValue(initializer) ==
    IF initializer.type = "VariableDeclaration" THEN initializer.declarations[1].init ELSE initializer.right

\* C20: for every for-statement, the variable of the controls_for block is
\* the identifier of the initializer, its FROM slot holds the translation of
\* the right-hand side of the initializer, its TO slot holds the translation
\* of the right-hand operand of the test, and its BY slot holds the literal 1
\* whatever the update expression and the comparison operator are
C20_CountedLoopFromForStatement ==
    [][(lastOp'.name = "jsToBlocks" /\ lastOp'.code \in ForPrograms
        /\ lastOp'.code.body[1].init # Null)
          => LET n == Len(workspace.top)
                 node == lastOp'.code.body[1]
                 block == workspace'.top[n + 1].b
             IN /\ Len(workspace'.top) = n + 1
                /\ block.type = "controls_for"
                /\ block.fields.VAR = InitName(node.init)
                /\ block.inputs.FROM = Plugged(InitValue(node.init))
                /\ block.inputs.TO = Plugged(node.test.right)
                /\ block.inputs.BY = mathNumber(1)]_vars

\* C20, amended: that holds when the initializer is a variable declaration
\* (its first declarator counts); with an assignment as initializer, or with
\* none, the block keeps its default variable and its FROM slot stays empty,
\* while TO and BY are filled the same way
C20_CountedLoopFromDeclaration ==
    [][(lastOp'.name = "jsToBlocks" /\ lastOp'.code \in ForPrograms)
          => LET n == Len(workspace.top)
                 node == lastOp'.code.body[1]
                 block == workspace'.top[n + 1].b
                 declared == node.init # Null /\ node.init.type = "VariableDeclaration"
             IN /\ Len(workspace'.top) = n + 1
                /\ block.type = "controls_for"
                /\ block.fields.VAR = IF declared THEN InitName(node.init) ELSE "i"
                /\ block.inputs.FROM
                      = IF declared THEN Plugged(InitValue(node.init)) ELSE Null
                /\ block.inputs.TO = Plugged(node.test.right)
                /\ block.inputs.BY = mathNumber(1)]_vars

C20_Witness ==
    /\ lastOp = Op("jsToBlocks",
                   Source(<<For(VarDecl(<<Declarator("k", Num(2))>>),
                                Bin("<=", Id("k"), Id("n")),
                                Assign("+=", Id("k"), Num(2)),
                                Block(<<WaitOne>>))>>))
    /\ result.success
    /\ Len(workspace.top) = 1
    /\ workspace.top[1].b.type = "controls_for"
    /\ workspace.top[1].b.fields.VAR = "k"
    /\ workspace.top[1].b.inputs.FROM = mathNumber(2)
    /\ workspace.top[1].b.inputs.TO = variableGet("n")
    /\ workspace.top[1].b.inputs.BY = mathNumber(1)
    /\ workspace.top[1].b.inputs.DO = waitBlock


(***************************************************************************)
(* The else branch of an if-statement.                                     *)
(***************************************************************************)
RECURSIVE BlocksIn(_)
\* the blocks of a tree: the block, those plugged into its slots, those
\* chained below it
BlocksIn(b) ==
    IF b = Null THEN {}
    ELSE {b} \cup UNION {BlocksIn(b.inputs[s]) : s \in DOMAIN b.inputs}
             \cup BlocksIn(b.next)

\* the statements of an else branch
ElseStatements(other) ==
    IF other.type = "BlockStatement" THEN other.body ELSE <<other>>

\* C21: for every if-statement that has an else branch, the controls_if block
\* has its else slot (made before the slots are filled), and the translated
\* statements of the else branch are attached to it; also when the else branch
\* is itself an if-statement, whose condition and bodies then are in the graph
C21_ElseBranchAttached ==
    [][(lastOp'.name = "jsToBlocks" /\ lastOp'.code \in IfPrograms
        /\ lastOp'.code.body[1].alternate # Null)
          => LET n == Len(workspace.top)
                 other == stripAwait(lastOp'.code.body[1].alternate)
                 kept == SelectSeq(ElseStatements(other), IsKept)
                 block == workspace'.top[n + 1].b
             IN /\ Len(workspace'.top) = n + 1
                /\ block.type = "controls_if"
                /\ block.fields.elseCount_ = 1
                /\ "ELSE" \in DOMAIN block.inputs
                /\ block.inputs.ELSE = IF kept = <<>> THEN Null ELSE ChainOf(kept, Len(kept))
                /\ other.type = "IfStatement"
                      => /\ Plugged(other.test) \in BlocksIn(block)
                         /\ ChainOf(other.consequent.body, Len(other.consequent.body))
                               \in BlocksIn(block)]_vars


(***************************************************************************)
(* What jsToBlocks does to the blocks that were in the workspace before.   *)
(***************************************************************************)
\* the y coordinate of the bottom edge of a root
Bottom(root) == root.y + getHeightWidth(root.b)

\* C22: jsToBlocks never changes the links, slots or position of a block that
\* existed before the call, and every root that exists after the call and was
\* created by it lies at least the gap of 30 units below the bottom of every
\* root that existed before
C22_NewRootsBelowOldOnes ==
    [][lastOp'.name = "jsToBlocks"
          => LET n == Len(workspace.top)
             IN /\ Len(workspace'.top) >= n
                /\ SubSeq(workspace'.top, 1, n) = workspace.top
                /\ \A i \in (n + 1)..Len(workspace'.top) : \A j \in 1..n :
                      workspace'.top[i].y >= Bottom(workspace.top[j]) + 30]_vars


(***************************************************************************)
(* The AI assistant: the input field, the Send button, aiChatHistory and   *)
(* the sendAIMessage invocations that wait for the LLM.                    *)
(***************************************************************************)
MaxHistory == 6

\* What the user types, and what the LLM answers: a failure of the call, a
\* text without code, or a text with a code block
Typed == {"hi", " "}
AiCodes == {Source(<<SetTorqueOn>>), BadSource("Unexpected token (1:4)")}
NoCodeBlock == BadSource("")
Answers == [ok : {TRUE}, code : AiCodes \cup {NoCodeBlock}]
               \cup {[ok |-> FALSE, code |-> NoCodeBlock]}

RECURSIVE trim(_)
\* String.prototype.trim, for spaces
trim(t) ==
    IF Len(t) > 0 /\ SubSeq(t, 1, 1) = " " THEN trim(SubSeq(t, 2, Len(t)))
    ELSE IF Len(t) > 0 /\ SubSeq(t, Len(t), Len(t)) = " " THEN trim(SubSeq(t, 1, Len(t) - 1))
    ELSE t

InFlight == {i \in 1..MaxRuns : aiRuns[i] # "idle"}

\* the user edits the input field
TypeText ==
    /\ \E t \in Typed : aiInput' = t /\ aiInput # t
    /\ UNCHANGED <<aiSendDisabled, aiChatHistory, aiRuns, wsVars, codeVars>>

\* sendAIMessage up to its first await: nothing happens for an empty message
sendAIMessage ==
    /\ trim(aiInput) # ""
    /\ Len(aiChatHistory) < MaxHistory
    /\ \E i \in 1..MaxRuns :
          /\ aiRuns[i] = "idle" /\ \A j \in 1..(i - 1) : aiRuns[j] # "idle"
          /\ aiRuns' = [aiRuns EXCEPT ![i] = "first"]
    /\ aiInput' = ""
    /\ aiSendDisabled' = TRUE
    /\ aiChatHistory' = Append(aiChatHistory, "user")
    /\ UNCHANGED <<wsVars, codeVars>>

\* a click on the Send button: a disabled button dispatches no click
ClickSend == ~aiSendDisabled /\ sendAIMessage

\* the keypress listener of the input field
PressEnter == \E key \in {"Enter", "a"} : key = "Enter" /\ sendAIMessage

\* finally { sendBtn.disabled = false }
Finished(i) ==
    /\ aiRuns' = [aiRuns EXCEPT ![i] = "idle"]
    /\ aiSendDisabled' = FALSE

\* callLLM settles for invocation i: the rest of sendAIMessage up to the next
\* await or to the end of its finally block
LLMSettles(i, answer) ==
    /\ aiRuns[i] # "idle"
    /\ IF ~answer.ok
       THEN /\ Finished(i)
            /\ UNCHANGED <<aiChatHistory, aiInput, wsVars>>
       ELSE IF answer.code = NoCodeBlock
       THEN /\ Finished(i)
            /\ aiChatHistory' = Append(aiChatHistory, "assistant")
            /\ UNCHANGED <<aiInput, wsVars>>
       ELSE \E r \in {jsToBlocks(workspace, answer.code)} :
               /\ workspace' = r.workspace
               /\ result' = r.result
               /\ lastOp' = Op("jsToBlocks", answer.code)
               /\ IF ~r.result.success /\ aiRuns[i] = "first"
                  THEN /\ aiChatHistory' = aiChatHistory \o <<"assistant", "user">>
                       /\ aiRuns' = [aiRuns EXCEPT ![i] = "retry"]
                       /\ UNCHANGED aiSendDisabled
                  ELSE /\ aiChatHistory' = Append(aiChatHistory, "assistant")
                       /\ Finished(i)
               /\ UNCHANGED <<aiInput, definitions_, nameDB_, pyOut, codeOutput>>
    /\ UNCHANGED codeVars

InitAI ==
    /\ WsIdle
    /\ libStrict = FALSE
    /\ ExprIdle
    /\ RtIdle
    /\ OrdIdle
    /\ AsyncIdle

NextAI ==
    \/ TypeText
    \/ ClickSend
    \/ PressEnter
    \/ \E i \in 1..MaxRuns, answer \in Answers : LLMSettles(i, answer)

SpecAI == InitAI /\ [][NextAI]_vars

\* C23: AI-assisted requests are serialised: under every interleaving of
\* clicks on Send, presses of Enter and LLM responses, at most one
\* sendAIMessage invocation is between its start and its finally block
C23_OneRequestAtATime == Cardinality(InFlight) <= 1


\* C30: after any sequence of sendAIMessage runs, also runs in which the LLM
\* call fails and runs that take the retry path, aiChatHistory alternates
\* user, assistant, user, assistant, starting with user, whenever no request
\* is in flight
C30_HistoryAlternates ==
    InFlight = {} =>
        \A k \in 1..Len(aiChatHistory) :
            aiChatHistory[k] = IF k % 2 = 1 THEN "user" ELSE "assistant"


(***************************************************************************)
(* The modules a Backend B program uses and the modules it imports.        *)
(***************************************************************************)
\* the prefix with which a program refers to a module, and its import line
Modules ==
    {[prefix |-> "time.", line |-> "import time"],
     [prefix |-> "np.", line |-> "import numpy as np"],
     [prefix |-> "math.", line |-> "import math"],
     [prefix |-> "random.", line |-> "import random"]}

\* the lines of the program before the header line: the import list
ImportList(program) ==
    LET k == CHOOSE k \in 1..Len(program) :
                 program[k] = WithLine /\ \A j \in 1..(k - 1) : program[j] # WithLine
    IN SubSeq(program, 1, k - 1)

\* C24: every non-empty Backend B program written by updateCodeOutput imports
\* each module its text refers to; in particular the import list always holds
\* the import of time, because the preamble always calls time.time()
C24_UsedModulesImported ==
    (Updated /\ codeOutput # DragHere)
        => /\ \A m \in Modules :
                  codeIncludes(codeOutput, m.prefix)
                      => \E i \in 1..Len(codeOutput) : Unindented(codeOutput[i]) = m.line
           /\ \E i \in 1..Len(ImportList(codeOutput)) :
                  ImportList(codeOutput)[i] = "import time"


(***************************************************************************)
(* Negation in Backend B.                                                  *)
(***************************************************************************)
GroupingTypes == {"math_arithmetic", "logic_compare", "logic_operation"}

\* the text Backend B gives the operand of a negate block on its own
OperandText(b) ==
    blockToCode(b.inputs.NUM, dbAddAll(<<>>, VarsOfBlock(b))).code

IsNegationOfGroup ==
    /\ exprPhase = "text"
    /\ exprRes.b.type = "math_single"
    /\ exprRes.b.fields.OP = "NEG"
    /\ exprRes.b.inputs.NUM # Null
    /\ exprRes.b.inputs.NUM.type \in GroupingTypes

\* C25: when the operand of a negate block is an arithmetic, comparison or
\* logical block, the text of the negation is a minus sign in front of the
\* operand's text in parentheses
C25_NegationKeepsGrouping ==
    IsNegationOfGroup
        => /\ exprPy.ok
           /\ exprPy.code = "-(" \o OperandText(exprRes.b) \o ")"


(***************************************************************************)
(* The values a translated counting loop iterates.  The source loop        *)
(* for (var i = a; i < b; i++) is translated by jsToBlocks, rendered by    *)
(* Backend B, and the header line of the rendering is read back as Python  *)
(* reads it.                                                               *)
(***************************************************************************)
MaxCount == 3
Counts == (0 - 1)..MaxCount

\* the literal a parser gives for an integer, and its text in both languages
IntLit(n) == IF n < 0 THEN Un("-", Num(0 - n)) ELSE Num(n)
IntText(n) == IF n < 0 THEN "-" \o ToString(0 - n) ELSE ToString(n)

CountLoop(a, b) ==
    Source(<<For(VarDecl(<<Declarator("i", IntLit(a))>>), Bin("<", Id("i"), IntLit(b)),
                 Update(Id("i")), Block(<<WaitOne>>))>>)
CountPrograms == {CountLoop(a, b) : a \in Counts, b \in Counts}

NextCount ==
    \/ \E jsCode \in CountPrograms : JsToBlocks(jsCode)
    \/ PythonWorkspaceToCode

SpecCount == Init /\ [][NextCount]_vars

\* the values of the source loop: a, a + 1, ..., b - 1
SourceValues(a, b) == [k \in 1..(IF b > a THEN b - a ELSE 0) |-> a + (k - 1)]

\* Python's range(start, stop) with step 1
PyRange(start, stop) == [k \in 1..(IF stop > start THEN stop - start ELSE 0) |-> start + (k - 1)]

\* The readings of a header line "for i in range(int(x), int(y)[ + 1], int(1)):"
RangeReadings(txt) ==
    {r \in [start : Counts, stop : Counts, plus : {0, 1}] :
        txt = "for i in range(int(" \o IntText(r.start) \o "), int(" \o IntText(r.stop)
                \o ")" \o (IF r.plus = 1 THEN " + 1" ELSE "") \o ", int(1)):"}

\* the values the rendered loop iterates
RenderedValues(txt) ==
    LET r == CHOOSE r \in RangeReadings(txt) : TRUE
    IN PyRange(r.start, r.stop + r.plus)

IsRenderingOf(a, b) ==
    /\ lastOp.name = "workspaceToCode"
    /\ pyOut.ok
    /\ workspace = jsToBlocks(EmptyWorkspace, CountLoop(a, b)).workspace
    /\ Len(pyOut.lines) > 0

\* C26: the rendering of the translation of for (var i = a; i < b; i++)
\* iterates exactly a, a + 1, ..., b - 1 (nothing when b <= a)
C26_CounterValuesPreserved ==
    \A a \in Counts, b \in Counts :
        IsRenderingOf(a, b)
            => /\ RangeReadings(pyOut.lines[1].txt) # {}
               /\ RenderedValues(pyOut.lines[1].txt) = SourceValues(a, b)


(***************************************************************************)
(* Running and stopping programs.  A program is the text runCode evaluates *)
(* as an async function: a sequence of awaited calls.  One action is one   *)
(* browser task: a click handler, a timer callback or the settlement of a  *)
(* window.wasm promise, together with every continuation that becomes      *)
(* runnable in it.                                                         *)
(***************************************************************************)
Max(a, b) == IF a > b THEN a ELSE b
Abs(x) == IF x < 0 THEN 0 - x ELSE x

\* Math.round of n / d for d > 0
RoundDiv(n, d) == (2 * n + d) \div (2 * d)

degreesToPosition(deg) == RoundDiv(2048 * 360 + deg * 4096, 360)
positionToDegrees(pos) == [num |-> (pos - 2048) * 360, den |-> 4096]

maxStepsPerSecond == 4096
stepIntervalMs == 20
interval == 50
motorIds == <<11, 12, 13, 14, 15, 16>>

\* awaited calls of a program
WaitFor(num, den) == [op |-> "wait", seconds |-> [num |-> num, den |-> den]]
SleepFor(ms) == [op |-> "sleep", ms |-> ms]
SetTorque(id, enable) == [op |-> "setTorque", id |-> id, enable |-> enable]
SetDegrees(id, deg) == [op |-> "setDegrees", id |-> id, deg |-> deg]
MoveSmooth(id, targetPos, durationMs) ==
    [op |-> "moveSmooth", id |-> id, targetPos |-> targetPos, durationMs |-> durationMs]

\* the part of the state a chain of continuations reads and writes
World == [runs |-> runs, timers |-> timers, cache |-> motorPositionCache,
          last |-> wasmLast, late |-> lateCmds, log |-> waitLog]

MotionCalls ==
    {"set_left_antenna", "set_right_antenna", "enable_left_antenna_torque",
     "enable_right_antenna_torque"}

\* program i calls window.wasm[name](arg)
wasmCall(w, i, name, arg) ==
    [w EXCEPT !.last = [by |-> i, name |-> name, arg |-> arg],
              !.late[i] = IF stopped[i] /\ name \in MotionCalls THEN @ + 1 ELSE @]

\* Robot.setPosition(id, position) for an antenna motor
setPosition(w, i, id, position) ==
    wasmCall([w EXCEPT !.cache[id] = position], i,
             IF id = 17 THEN "set_left_antenna" ELSE "set_right_antenna",
             <<positionToDegrees(position)>>)

\* the position of step c.step: linear in setPositionLimited, eased in moveSmooth
stepPos(c) ==
    LET delta == c.targetPos - c.startPos
    IN IF c.kind = "limited"
       THEN RoundDiv(c.startPos * c.steps + delta * c.step, c.steps)
       ELSE LET eased == IF 2 * c.step < c.steps
                         THEN 2 * c.step * c.step
                         ELSE c.steps * c.steps
                                  - 2 * (c.steps - c.step) * (c.steps - c.step)
            IN RoundDiv(c.startPos * c.steps * c.steps + delta * eased, c.steps * c.steps)

\* the async function settles
settle(w, i, status) ==
    [w EXCEPT !.runs[i].status = status, !.runs[i].at = "none", !.runs[i].call = NoCall]

RECURSIVE startStatement(_, _, _)
RECURSIVE doStep(_, _, _)

\* the awaited promise is fulfilled: the program goes on with its next call
resume(w, i, stop) ==
    startStatement([w EXCEPT !.runs[i].pc = @ + 1, !.runs[i].at = "none",
                             !.runs[i].call = NoCall], i, stop)

\* doStep(step) of setPositionLimited and of moveSmooth
doStep(w, i, stop) ==
    LET c == w.runs[i].call
    IN IF c.step > c.steps \/ stop THEN resume(w, i, stop)
       ELSE [setPosition(w, i, c.id, stepPos(c)) EXCEPT !.runs[i].at = "stepSet"]

\* setPositionLimited once the start position is known
setPositionLimited(w, i, stop, id, targetPos, startPos) ==
    LET delta == Abs(targetPos - startPos)
    IN IF delta * 1000 < 50 * maxStepsPerSecond
       THEN [setPosition(w, i, id, targetPos) EXCEPT !.runs[i].at = "set"]
       ELSE doStep([w EXCEPT !.runs[i].call =
                        [kind |-> "limited", id |-> id, startPos |-> startPos,
                         targetPos |-> targetPos, durationMs |-> 0,
                         steps |-> Max(2, (delta * 1000)
                                             \div (maxStepsPerSecond * stepIntervalMs)),
                         step |-> 1]], i, stop)

\* moveSmooth once the start position is known
moveSmooth(w, i, stop, startPos) ==
    LET c == w.runs[i].call
    IN doStep([w EXCEPT !.runs[i].call =
                   [c EXCEPT !.startPos = startPos,
                             !.steps = Max(10, c.durationMs \div 20),
                             !.step = 1]], i, stop)

\* Robot.getPosition(id) for an antenna motor
getPosition(w, i, id) ==
    wasmCall(w, i, IF id = 17 THEN "get_left_antenna" ELSE "get_right_antenna", <<>>)

\* the program runs from its call number pc up to the first promise that is
\* not settled yet
startStatement(w, i, stop) ==
    LET r == w.runs[i]
    IN IF r.pc > Len(r.code) THEN settle(w, i, "completed")
       ELSE LET s == r.code[r.pc]
            IN CASE s.op = "wait" ->
                      [w EXCEPT !.runs[i].at = "timer",
                                !.timers[i] = [NoTimer EXCEPT !.active = TRUE,
                                                  !.total = [num |-> s.seconds.num * 1000,
                                                             den |-> s.seconds.den],
                                                  !.state = "pending"],
                                !.log[i] = NoWait]
                 [] s.op = "sleep" ->
                      [w EXCEPT !.runs[i].at = "timer",
                                !.timers[i] = [NoTimer EXCEPT !.active = TRUE,
                                                  !.total = [num |-> s.ms, den |-> 1],
                                                  !.state = "pending"],
                                !.log[i] = NoWait]
                 [] s.op = "setTorque" ->
                      [wasmCall(w, i,
                                (IF s.enable THEN "enable" ELSE "disable")
                                    \o (IF s.id = 17 THEN "_left" ELSE "_right")
                                    \o "_antenna_torque", <<>>)
                       EXCEPT !.runs[i].at = "torque"]
                 [] s.op = "setDegrees" ->
                      IF w.cache[s.id] # Undefined
                      THEN setPositionLimited(w, i, stop, s.id, degreesToPosition(s.deg),
                                              w.cache[s.id])
                      ELSE [getPosition(w, i, s.id)
                            EXCEPT !.runs[i].at = "get",
                                   !.runs[i].call =
                                       [NoCall EXCEPT !.kind = "limited", !.id = s.id,
                                               !.targetPos = degreesToPosition(s.deg)]]
                 [] s.op = "moveSmooth" ->
                      [getPosition(w, i, s.id)
                       EXCEPT !.runs[i].at = "get",
                              !.runs[i].call =
                                  [NoCall EXCEPT !.kind = "smooth", !.id = s.id,
                                          !.targetPos = s.targetPos,
                                          !.durationMs = s.durationMs]]

\* one callback of the setInterval timer of wait and sleep
tick_mutKeepTimer(t, stop) ==
    LET elapsed == t.elapsed + interval
        settled(state) == IF t.state = "pending" THEN state ELSE t.state
    IN IF stop
       THEN [t EXCEPT !.elapsed = elapsed, !.active = FALSE, !.called = "reject",
                      !.state = settled("rejected")]
       ELSE IF elapsed * t.total.den >= t.total.num
       THEN [t EXCEPT !.elapsed = elapsed, !.called = "resolve",
                      !.state = settled("fulfilled")]
       ELSE [t EXCEPT !.elapsed = elapsed, !.called = "none"]

tick(t, stop) ==
    LET elapsed == t.elapsed + interval
        settled(state) == IF t.state = "pending" THEN state ELSE t.state
    IN IF stop
       THEN [t EXCEPT !.elapsed = elapsed, !.active = FALSE, !.called = "reject",
                      !.state = settled("rejected")]
       ELSE IF elapsed * t.total.den >= t.total.num
       THEN [t EXCEPT !.elapsed = elapsed, !.active = FALSE, !.called = "resolve",
                      !.state = settled("fulfilled")]
       ELSE [t EXCEPT !.elapsed = elapsed, !.called = "none"]

Install(w) ==
    /\ runs' = w.runs
    /\ timers' = w.timers
    /\ motorPositionCache' = w.cache
    /\ wasmLast' = w.last
    /\ lateCmds' = w.late
    /\ waitLog' = w.log

\* runCode(): code is what Blockly.JavaScript.workspaceToCode returns
RunCode(code) ==
    /\ connected
    /\ stopRequested' = FALSE
    /\ IF code = <<>>
       THEN UNCHANGED <<runs, timers, motorPositionCache, wasmLast, lateCmds, waitLog>>
       ELSE \E i \in 1..MaxProgs :
               /\ runs[i].status = "idle"
               /\ \A j \in 1..(i - 1) : runs[j].status # "idle"
               /\ Install(startStatement(
                      [World EXCEPT !.runs[i] = [IdleRun EXCEPT !.status = "running",
                                                               !.code = code]],
                      i, FALSE))
    /\ UNCHANGED <<stopped, connVars, pageVars>>

\* stopCode()
StopCode ==
    /\ stopRequested' = TRUE
    /\ stopped' = [i \in 1..MaxProgs |-> stopped[i] \/ runs[i].status = "running"]
    /\ wasmLast' = IF connected THEN [by |-> 0, name |-> "disable_torque", arg |-> motorIds]
                   ELSE wasmLast
    /\ UNCHANGED <<runs, timers, motorPositionCache, lateCmds, waitLog, connVars, pageVars>>

MaxElapsed == 300

\* the interval timer of program i's wait or sleep fires
Tick(i) ==
    /\ timers[i].active
    /\ timers[i].elapsed < MaxElapsed
    /\ \E t \in {tick(timers[i], stopRequested)} :
          \E w \in {[World EXCEPT
                        !.timers[i] = t,
                        !.log[i] =
                            [ticks |-> @.ticks + 1,
                             settles |-> @.settles + (IF t.called = "none" THEN 0 ELSE 1),
                             firstStop |-> IF stopRequested /\ @.firstStop = 0
                                           THEN @.ticks + 1 ELSE @.firstStop,
                             settledAt |-> IF t.called # "none" /\ @.settledAt = 0
                                           THEN @.ticks + 1 ELSE @.settledAt]]} :
             Install(IF timers[i].state # "pending" THEN w
                     ELSE IF t.state = "fulfilled" THEN resume(w, i, stopRequested)
                     ELSE IF t.state = "rejected" THEN settle(w, i, "rejected")
                     ELSE w)
    /\ UNCHANGED <<stopRequested, stopped, connVars, pageVars>>

\* angles window.wasm reports for an antenna
Angles == {0}

\* the window.wasm promise program i awaits settles: fulfilled (ok) with the
\* angle deg where it is a read, or rejected
WasmSettles(i, ok, deg) ==
    /\ runs[i].status = "running"
    /\ runs[i].at \in {"get", "set", "stepSet", "torque"}
    /\ LET c == runs[i].call
           pos == degreesToPosition(deg)
           read == [World EXCEPT !.cache[c.id] = pos]
       IN Install(
            CASE runs[i].at = "torque" -> resume(World, i, stopRequested)
              [] runs[i].at # "torque" /\ ~ok -> settle(World, i, "failed")
              [] runs[i].at = "set" /\ ok -> resume(World, i, stopRequested)
              [] runs[i].at = "stepSet" /\ ok -> [World EXCEPT !.runs[i].at = "stepDelay"]
              [] runs[i].at = "get" /\ ok ->
                    IF c.kind = "limited"
                    THEN setPositionLimited(read, i, stopRequested, c.id, c.targetPos, pos)
                    ELSE moveSmooth(read, i, stopRequested, pos))
    /\ UNCHANGED <<stopRequested, stopped, connVars, pageVars>>

\* setTimeout(r, stepDelay) of a step fires
StepDelayOver(i) ==
    /\ runs[i].status = "running"
    /\ runs[i].at = "stepDelay"
    /\ Install(doStep([World EXCEPT !.runs[i].call.step = @ + 1], i, stopRequested))
    /\ UNCHANGED <<stopRequested, stopped, connVars, pageVars>>

\* Programs: timing only, and timing with motion
Tenth == WaitFor(1, 10)
WaitPrograms ==
    {<<>>, <<SleepFor(0)>>, <<SleepFor(30)>>, <<SleepFor(50)>>, <<SleepFor(120)>>,
     <<WaitFor(0, 1)>>, <<Tenth>>, <<SleepFor(50), Tenth>>}
MotionPrograms ==
    {<<>>,
     <<SetDegrees(17, 20), SetTorque(17, TRUE)>>,
     <<SetTorque(18, TRUE), Tenth, SetDegrees(18, 10)>>,
     <<MoveSmooth(18, 2148, 100)>>}

\* after Robot.connect has completed
Connected ==
    /\ connected = TRUE /\ pollingInterval = 1 /\ intervals = {1} /\ intervalCount = 1
    /\ pendingConnects = 0 /\ pendingDisconnects = 0 /\ statusConnected = TRUE
    /\ afterDisconnect = FALSE

InitRun ==
    /\ WsIdle
    /\ libStrict = FALSE
    /\ ExprIdle
    /\ RtIdle
    /\ OrdIdle
    /\ AiIdle
    /\ RunIdle
    /\ Connected

NextRun ==
    \/ \E code \in MotionPrograms : RunCode(code)
    \/ StopCode
    \/ \E i \in 1..MaxProgs : Tick(i)
    \/ \E i \in 1..MaxProgs, ok \in BOOLEAN, deg \in Angles : WasmSettles(i, ok, deg)
    \/ \E i \in 1..MaxProgs : StepDelayOver(i)

SpecRun == InitRun /\ [][NextRun]_vars

NextWait ==
    \/ \E code \in WaitPrograms : RunCode(code)
    \/ StopCode
    \/ \E i \in 1..MaxProgs : Tick(i)

SpecWait == InitRun /\ [][NextWait]_vars

\* timers keep firing
FairWait == SpecWait /\ \A i \in 1..MaxProgs : WF_vars(Tick(i))

\* C27: a program sends no position command and no torque-enable command
\* after stopCode was invoked while it was executing
C27_NoCommandAfterStop == \A i \in 1..MaxProgs : lateCmds[i] = 0


(***************************************************************************)
(* The promise of wait and sleep.                                          *)
(***************************************************************************)
\* the elapsed time of tick number k has reached the duration of timer t
Reached(t, k) == k * interval * t.total.den >= t.total.num

SettledOnce(i) ==
    LET t == timers[i]
        g == waitLog[i]
    IN /\ g.settles <= 1
       /\ t.state = "pending"
            => g.settles = 0 /\ g.firstStop = 0 /\ (g.ticks = 0 \/ ~Reached(t, g.ticks))
       /\ t.state = "rejected"
            => /\ g.settles = 1
               /\ g.firstStop = g.settledAt
               /\ g.ticks = g.settledAt
               /\ \A k \in 1..(g.settledAt - 1) : ~Reached(t, k)
       /\ t.state = "fulfilled"
            => /\ g.settles = 1
               /\ g.firstStop = 0
               /\ g.ticks = g.settledAt
               /\ Reached(t, g.settledAt)
               /\ \A k \in 1..(g.settledAt - 1) : ~Reached(t, k)

\* C29: a wait or sleep promise settles exactly once: rejected at the first
\* tick that sees stopRequested (whether or not the duration has elapsed by
\* then), otherwise fulfilled at the first tick at which the elapsed time has
\* reached the duration; no tick fires after that, and a pending promise
\* does settle
C29_SettlesExactlyOnce ==
    /\ [](\A i \in 1..MaxProgs : SettledOnce(i))
    /\ \A i \in 1..MaxProgs :
          (timers[i].state = "pending") ~> (timers[i].state \in {"fulfilled", "rejected"})

\* a sleep rejected at the very tick at which its duration had elapsed
C29_Witness ==
    \E i \in 1..MaxProgs :
        /\ timers[i].state = "rejected"
        /\ waitLog[i].settledAt > 1
        /\ Reached(timers[i], waitLog[i].settledAt)


(***************************************************************************)
(* Connecting and disconnecting.                                           *)
(***************************************************************************)
MaxConnects == 4

\* Robot.startPositionPolling(): setInterval returns a fresh timer id
startPositionPolling ==
    /\ intervalCount' = intervalCount + 1
    /\ intervals' = intervals \cup {intervalCount + 1}
    /\ pollingInterval' = intervalCount + 1

\* Robot.stopPositionPolling()
stopPositionPolling ==
    /\ intervals' = IF pollingInterval # 0 THEN intervals \ {pollingInterval} ELSE intervals
    /\ pollingInterval' = 0
    /\ UNCHANGED intervalCount

\* toggleConnection(), with the part of Robot.connect and Robot.disconnect
\* that runs before window.wasm answers
ToggleConnection ==
    /\ IF connected
       THEN /\ connected' = FALSE
            /\ stopPositionPolling
            /\ pendingDisconnects' = pendingDisconnects + 1
            /\ afterDisconnect' = TRUE
            /\ UNCHANGED pendingConnects
       ELSE /\ intervalCount + pendingConnects < MaxConnects
            /\ pendingConnects' = pendingConnects + 1
            /\ afterDisconnect' = FALSE
            /\ UNCHANGED <<connected, pollingInterval, intervals, intervalCount,
                           pendingDisconnects>>
    /\ UNCHANGED <<statusConnected, runVars, pageVars>>

\* a window.wasm.connect promise settles: the then or the catch of Robot.connect
ConnectSettles(ok) ==
    /\ pendingConnects > 0
    /\ pendingConnects' = pendingConnects - 1
    /\ IF ok
       THEN /\ connected' = TRUE
            /\ statusConnected' = TRUE
            /\ startPositionPolling
       ELSE UNCHANGED <<connected, statusConnected, pollingInterval, intervals,
                        intervalCount>>
    /\ UNCHANGED <<pendingDisconnects, afterDisconnect, runVars, pageVars>>

\* a window.wasm.disconnect promise settles: the then or the catch of
\* Robot.disconnect
DisconnectSettles ==
    /\ pendingDisconnects > 0
    /\ pendingDisconnects' = pendingDisconnects - 1
    /\ statusConnected' = FALSE
    /\ UNCHANGED <<connected, pollingInterval, intervals, intervalCount, pendingConnects,
                   afterDisconnect, runVars, pageVars>>

InitConn ==
    /\ WsIdle
    /\ libStrict = FALSE
    /\ ExprIdle
    /\ RtIdle
    /\ OrdIdle
    /\ AsyncIdle

NextConn ==
    \/ ToggleConnection
    \/ \E ok \in BOOLEAN : ConnectSettles(ok)
    \/ DisconnectSettles

SpecConn == InitConn /\ [][NextConn]_vars

\* C28: at most one position-polling timer is active; once Robot.disconnect
\* has run and no connect has been requested since, no polling timer is
\* active and Robot.connected is false
C28_OnePollingTimer ==
    /\ Cardinality(intervals) <= 1
    /\ afterDisconnect => intervals = {} /\ ~connected

====
